---------------------------- MODULE Spec2Model ----------------------------
(***************************************************************************)
(* Model of the chord analyzer of backend/services/chord_analyzer.py:      *)
(* the template catalog, the template matcher, the frame analyzer and the  *)
(* progression segmenter.                                                  *)
(*                                                                         *)
(* Numbers.  The code computes on floats.  The model computes on exact     *)
(* rationals with explicit denominators:                                   *)
(*   - an input bin is an integer count of 1/BinUnit;                      *)
(*   - a normalized vector is [num, den]: bin i is num[i]/den;             *)
(*   - a score s is the integer s * ScoreUnit * den, where den is the      *)
(*     denominator of the normalized vector it was computed from.          *)
(* The times of a progression are binary64 floats with IEEE rounding.      *)
(* Strings that the code builds or parses (pitch names, key names, chord   *)
(* symbols) are sequences of one-character strings.                        *)
(***************************************************************************)
EXTENDS Integers, Sequences, FiniteSets, TLC

(***************************************************************************)
(* Python's None, by the type of the value it stands in for: a mode or a   *)
(* chord signature string, a name (a sequence of characters), an index, a  *)
(* ChordResult.  A raised ValueError is a value of its own.                *)
(***************************************************************************)
None == "None"
NoName == <<"None">>
NoIndex == 0 - 1
NoResult == [kind |-> "None"]
ValueError == [kind |-> "ValueError"]

(***************************************************************************)
(* Generic helpers (Python built-ins used by the code).                    *)
(***************************************************************************)
Range(s) == {s[i] : i \in DOMAIN s}

RECURSIVE SumSeq(_)
SumSeq(s) == IF s = <<>> THEN 0 ELSE Head(s) + SumSeq(Tail(s))

\* max(...) of a non-empty sequence of integers
MaxSeq(s) == CHOOSE m \in Range(s) : \A x \in Range(s) : x <= m

\* sorted(xs, key = lambda x: -x.priority) and sorted(xs, key = lambda x: -x[1]):
\* Python's sort is stable, so among equal keys the earlier element stays first.
RECURSIVE InsertByPriority(_, _)
InsertByPriority(x, s) ==
    IF s = <<>> THEN <<x>>
    ELSE IF x.priority >= Head(s).priority THEN <<x>> \o s
    ELSE <<Head(s)>> \o InsertByPriority(x, Tail(s))

RECURSIVE SortByPriorityDesc(_)
SortByPriorityDesc(s) ==
    IF s = <<>> THEN <<>>
    ELSE InsertByPriority(Head(s), SortByPriorityDesc(Tail(s)))

RECURSIVE InsertByScore(_, _)
InsertByScore(x, s) ==
    IF s = <<>> THEN <<x>>
    ELSE IF x.score >= Head(s).score THEN <<x>> \o s
    ELSE <<Head(s)>> \o InsertByScore(x, Tail(s))

\* a bug that returns the matches in template order
SortByScoreDesc_Unsorted(s) == s

RECURSIVE SortByScoreDesc(_)
SortByScoreDesc(s) ==
    IF s = <<>> THEN <<>>
    ELSE InsertByScore(Head(s), SortByScoreDesc(Tail(s)))

\* str.replace(old, new): left to right, non-overlapping
RECURSIVE Replace(_, _, _)
Replace(s, old, new) ==
    IF Len(s) < Len(old) THEN s
    ELSE IF SubSeq(s, 1, Len(old)) = old
         THEN new \o Replace(SubSeq(s, Len(old) + 1, Len(s)), old, new)
         ELSE <<Head(s)>> \o Replace(Tail(s), old, new)

\* str.upper() on the characters a key name is written with
UpperChar(c) ==
    CASE c = "a" -> "A" [] c = "b" -> "B" [] c = "c" -> "C" [] c = "d" -> "D"
      [] c = "e" -> "E" [] c = "f" -> "F" [] c = "g" -> "G" [] OTHER -> c

Upper(s) == [i \in DOMAIN s |-> UpperChar(s[i])]

(***************************************************************************)
(* Module constants of chord_analyzer.py                                   *)
(***************************************************************************)
PITCH_CLASSES ==
    << <<"C">>, <<"C", "#">>, <<"D">>, <<"D", "#">>, <<"E">>, <<"F">>,
       <<"F", "#">>, <<"G">>, <<"G", "#">>, <<"A">>, <<"A", "#">>, <<"B">> >>

\* PITCH_CLASSES.index(name), for a name that is in the list
PitchIndex(name) == (CHOOSE i \in 1..12 : PITCH_CLASSES[i] = name) - 1

\* a template whose optional intervals repeat its first required interval
ChordTemplate_Overlap(n, i, o, f, p) ==
    [name |-> n, intervals |-> i, optional |-> o \o <<i[1]>>, forbidden |-> f,
     priority |-> p]

ChordTemplate(n, i, o, f, p) ==
    [name |-> n, intervals |-> i, optional |-> o, forbidden |-> f, priority |-> p]

CHORD_TEMPLATES == <<
    ChordTemplate("maj13", <<0, 4, 11, 9, 2>>, <<7, 5>>, <<3, 10>>, 102),
    ChordTemplate("13",    <<0, 4, 10, 9, 2>>, <<7, 5>>, <<3, 11>>, 101),
    ChordTemplate("min13", <<0, 3, 10, 9, 2>>, <<7, 5>>, <<4, 11>>, 100),
    ChordTemplate("maj13", <<0, 4, 11, 9>>, <<7>>, <<3, 10>>, 99),
    ChordTemplate("13",    <<0, 4, 10, 9>>, <<7>>, <<3, 11>>, 98),
    ChordTemplate("min13", <<0, 3, 10, 9>>, <<7>>, <<4, 11>>, 97),
    ChordTemplate("maj13", <<4, 11, 9, 2>>, <<0, 7>>, <<3, 10>>, 96),
    ChordTemplate("13",    <<4, 10, 9, 2>>, <<0, 7>>, <<3, 11>>, 95),
    ChordTemplate("maj11", <<0, 4, 11, 2, 5>>, <<7>>, <<3, 10>>, 93),
    ChordTemplate("11",    <<0, 4, 10, 2, 5>>, <<7>>, <<3, 11>>, 92),
    ChordTemplate("min11", <<0, 3, 10, 2, 5>>, <<7>>, <<4, 11>>, 91),
    ChordTemplate("maj11", <<0, 4, 11, 5>>, <<7, 2>>, <<3, 10>>, 90),
    ChordTemplate("11",    <<0, 4, 10, 5>>, <<7, 2>>, <<3, 11>>, 89),
    ChordTemplate("min11", <<0, 3, 10, 5>>, <<7, 2>>, <<4, 11>>, 88),
    ChordTemplate("maj11", <<0, 11, 5>>, <<7, 2>>, <<3, 4, 10>>, 87),
    ChordTemplate("11",    <<0, 10, 5>>, <<7, 2>>, <<3, 4, 11>>, 86),
    ChordTemplate("maj11", <<4, 11, 2, 5>>, <<0, 7>>, <<3, 10>>, 85),
    ChordTemplate("11",    <<4, 10, 2, 5>>, <<0, 7>>, <<3, 11>>, 84),
    ChordTemplate("min11", <<3, 10, 2, 5>>, <<0, 7>>, <<4, 11>>, 83),
    ChordTemplate("maj9",  <<0, 4, 7, 11, 2>>, <<>>, <<3, 10>>, 82),
    ChordTemplate("9",     <<0, 4, 7, 10, 2>>, <<>>, <<3, 11>>, 81),
    ChordTemplate("min9",  <<0, 3, 7, 10, 2>>, <<>>, <<4, 11>>, 80),
    ChordTemplate("maj9",  <<0, 4, 11, 2>>, <<7>>, <<3, 10>>, 79),
    ChordTemplate("9",     <<0, 4, 10, 2>>, <<7>>, <<3, 11>>, 78),
    ChordTemplate("min9",  <<0, 3, 10, 2>>, <<7>>, <<4, 11>>, 77),
    ChordTemplate("maj9",  <<4, 11, 2>>, <<0, 7>>, <<3, 10>>, 76),
    ChordTemplate("9",     <<4, 10, 2>>, <<0, 7>>, <<3, 11>>, 75),
    ChordTemplate("min9",  <<3, 10, 2>>, <<0, 7>>, <<4, 11>>, 74),
    ChordTemplate("add9",  <<0, 4, 2>>, <<7>>, <<3, 10, 11>>, 73),
    ChordTemplate("madd9", <<0, 3, 2>>, <<7>>, <<4, 10, 11>>, 72),
    ChordTemplate("maj7",  <<0, 4, 7, 11>>, <<>>, <<3, 10>>, 71),
    ChordTemplate("dom7",  <<0, 4, 7, 10>>, <<>>, <<3, 11>>, 70),
    ChordTemplate("min7",  <<0, 3, 7, 10>>, <<>>, <<4, 11>>, 69),
    ChordTemplate("maj7",  <<0, 4, 11>>, <<7>>, <<3, 10>>, 68),
    ChordTemplate("dom7",  <<0, 4, 10>>, <<7>>, <<3, 11>>, 67),
    ChordTemplate("min7",  <<0, 3, 10>>, <<7>>, <<4, 11>>, 66),
    ChordTemplate("maj7",  <<4, 11>>, <<0, 7>>, <<3, 10>>, 65),
    ChordTemplate("dom7",  <<4, 10>>, <<0, 7>>, <<3, 11>>, 64),
    ChordTemplate("min7",  <<3, 10>>, <<0, 7>>, <<4, 11>>, 63),
    ChordTemplate("m7b5",  <<0, 3, 6, 10>>, <<>>, <<4, 7, 11>>, 62),
    ChordTemplate("dim7",  <<0, 3, 6, 9>>, <<>>, <<4, 7, 10, 11>>, 61),
    ChordTemplate("minmaj7", <<0, 3, 11>>, <<7>>, <<4, 10>>, 60),
    ChordTemplate("aug7",  <<0, 4, 8, 10>>, <<>>, <<3, 7, 11>>, 59),
    ChordTemplate("7sus4", <<0, 5, 10>>, <<7>>, <<3, 4, 11>>, 115),
    ChordTemplate("7sus2", <<0, 2, 10>>, <<7>>, <<3, 4, 11>>, 114),
    ChordTemplate("sus4",  <<0, 5, 7>>, <<>>, <<3, 4>>, 52),
    ChordTemplate("sus2",  <<0, 2, 7>>, <<>>, <<3, 4>>, 51),
    ChordTemplate("maj6",  <<0, 4, 9>>, <<7>>, <<3, 10, 11>>, 8),
    ChordTemplate("min6",  <<0, 3, 9>>, <<7>>, <<4, 10, 11>>, 7),
    ChordTemplate("aug",   <<0, 4, 8>>, <<>>, <<3, 7>>, 58),
    ChordTemplate("dim",   <<0, 3, 6>>, <<>>, <<4, 7>>, 57),
    ChordTemplate("major", <<0, 4, 7>>, <<>>, <<3>>, 56),
    ChordTemplate("major", <<0, 4>>, <<7>>, <<3>>, 55),
    ChordTemplate("minor", <<0, 3, 7>>, <<>>, <<4>>, 54),
    ChordTemplate("minor", <<0, 3>>, <<7>>, <<4>>, 53),
    ChordTemplate("power", <<0, 7>>, <<>>, <<3, 4>>, 5)
>>


\* ChordResult._quality_suffix: the dict, with the quality itself as the default
quality_suffix(quality) ==
    CASE quality = "major" -> <<>>
      [] quality = "minor" -> <<"m">>
      [] quality = "dim" -> <<"d", "i", "m">>
      [] quality = "aug" -> <<"+">>
      [] quality = "maj7" -> <<"m", "a", "j", "7">>
      [] quality = "dom7" -> <<"7">>
      [] quality = "min7" -> <<"m", "7">>
      [] quality = "m7b5" -> <<"m", "7", "b", "5">>
      [] quality = "dim7" -> <<"d", "i", "m", "7">>
      [] quality = "minmaj7" -> <<"m", "M", "7">>
      [] quality = "aug7" -> <<"+", "7">>
      [] quality = "maj6" -> <<"6">>
      [] quality = "min6" -> <<"m", "6">>
      [] quality = "sus4" -> <<"s", "u", "s", "4">>
      [] quality = "sus2" -> <<"s", "u", "s", "2">>
      [] quality = "7sus4" -> <<"7", "s", "u", "s", "4">>
      [] quality = "7sus2" -> <<"7", "s", "u", "s", "2">>
      [] quality = "maj9" -> <<"m", "a", "j", "9">>
      [] quality = "9" -> <<"9">>
      [] quality = "min9" -> <<"m", "9">>
      [] quality = "add9" -> <<"a", "d", "d", "9">>
      [] quality = "madd9" -> <<"m", "a", "d", "d", "9">>
      [] quality = "maj11" -> <<"m", "a", "j", "1", "1">>
      [] quality = "11" -> <<"1", "1">>
      [] quality = "min11" -> <<"m", "1", "1">>
      [] quality = "maj13" -> <<"m", "a", "j", "1", "3">>
      [] quality = "13" -> <<"1", "3">>
      [] quality = "min13" -> <<"m", "1", "3">>
      [] quality = "power" -> <<"5">>
      [] OTHER -> <<quality>>

\* ChordResult.to_symbol: root + suffix, then "/" + bass for an inversion
to_symbol(r) ==
    LET symbol == r.root \o quality_suffix(r.quality)
    IN  IF r.bass # NoName /\ r.bass # r.root
        THEN symbol \o <<"/">> \o r.bass
        ELSE symbol

\* the characters of the quality names that to_dict searches with "in"
QualityChars(quality) ==
    CASE quality = "maj7" -> <<"m", "a", "j", "7">>
      [] quality = "maj9" -> <<"m", "a", "j", "9">>
      [] quality = "maj11" -> <<"m", "a", "j", "1", "1">>
      [] quality = "maj13" -> <<"m", "a", "j", "1", "3">>
      [] quality = "min7" -> <<"m", "i", "n", "7">>
      [] quality = "min9" -> <<"m", "i", "n", "9">>
      [] quality = "min11" -> <<"m", "i", "n", "1", "1">>
      [] quality = "min13" -> <<"m", "i", "n", "1", "3">>
      [] OTHER -> <<quality>>

\* sub in s, for Python strings
Contains(s, sub) ==
    \E k \in 1..(Len(s) - Len(sub) + 1) : SubSeq(s, k, k + Len(sub) - 1) = sub

\* the extensions that the maj and min branches of to_dict add to the seventh
AddedExtensions(quality) ==
    LET chars == QualityChars(quality)
        has9 == Contains(chars, <<"9">>)
        has11 == Contains(chars, <<"1", "1">>)
        has13 == Contains(chars, <<"1", "3">>)
    IN  (IF has9 \/ has11 \/ has13 THEN {"add9"} ELSE {})
        \cup (IF has11 \/ has13 THEN {"add11"} ELSE {})
        \cup (IF has13 THEN {"add13"} ELSE {})

\* the quality names that the branches of to_dict test for
MappedQualities ==
    {"maj7", "maj9", "maj11", "maj13", "min7", "min9", "min11", "min13",
     "dom7", "9", "11", "13", "add9", "madd9", "7sus4", "7sus2", "sus4", "sus2",
     "m7b5", "dim7", "minmaj7", "aug7", "major", "minor", "dim", "aug", "power",
     "maj6", "min6"}

\* the extension keys of parse_chord_label instead of those of to_dict
BaseAndExtensions_Label(quality) ==
    IF quality \in {"dom7", "9", "11", "13", "maj7", "min7"}
    THEN <<quality, {"7"}>>
    ELSE <<quality, {}>>

\* base_quality and the keys of extensions (every value is True) in to_dict
BaseAndExtensions(quality) ==
    CASE quality \in {"maj7", "maj9", "maj11", "maj13"} ->
            <<"major", {"maj7"} \cup AddedExtensions(quality)>>
      [] quality \in {"min7", "min9", "min11", "min13"} ->
            <<"minor", {"min7"} \cup AddedExtensions(quality)>>
      [] quality \in {"dom7", "9", "11", "13"} ->
            <<"major", {"dom7"}
                \cup (IF quality \in {"9", "11", "13"} THEN {"add9"} ELSE {})
                \cup (IF quality \in {"11", "13"} THEN {"add11"} ELSE {})
                \cup (IF quality = "13" THEN {"add13"} ELSE {})>>
      [] quality = "add9" -> <<"major", {"add9"}>>
      [] quality = "madd9" -> <<"minor", {"add9"}>>
      [] quality = "7sus4" -> <<"major", {"dom7", "sus4"}>>
      [] quality = "7sus2" -> <<"major", {"dom7", "sus2"}>>
      [] quality = "sus4" -> <<"major", {"sus4"}>>
      [] quality = "sus2" -> <<"major", {"sus2"}>>
      [] quality = "m7b5" -> <<"minor", {"min7", "b5"}>>
      [] quality = "dim7" -> <<"diminished", {"dim7"}>>
      [] quality = "minmaj7" -> <<"minor", {"maj7"}>>
      [] quality = "aug7" -> <<"augmented", {"dom7"}>>
      [] quality = "major" -> <<"major", {}>>
      [] quality = "minor" -> <<"minor", {}>>
      [] quality = "dim" -> <<"diminished", {}>>
      [] quality = "aug" -> <<"augmented", {}>>
      [] quality = "power" -> <<"power", {}>>
      [] quality \in {"maj6", "min6"} ->
            <<IF quality = "maj6" THEN "major" ELSE "minor", {"add6"}>>
      [] OTHER -> <<quality, {}>>

\* a bug that forgets the template name: originalQuality repeats the base
to_dict_BaseOnly(r) ==
    LET be == BaseAndExtensions(r.quality)
    IN  [root |-> r.root,
         quality |-> be[1],
         extensions |-> [k \in be[2] |-> TRUE],
         bass |-> r.bass,
         confidence |-> r.confidence,
         symbol |-> to_symbol(r),
         originalQuality |-> be[1]]

\* ChordResult.to_dict
to_dict(r) ==
    LET be == BaseAndExtensions(r.quality)
    IN  [root |-> r.root,
         quality |-> be[1],
         extensions |-> [k \in be[2] |-> TRUE],
         bass |-> r.bass,
         confidence |-> r.confidence,
         symbol |-> to_symbol(r),
         originalQuality |-> r.quality]

(***************************************************************************)
(* RobustChordAnalyzer                                                     *)
(***************************************************************************)
\* One unit of an input bin is 1/BinUnit; a score of 1.0 is ScoreUnit * den.
BinUnit == 10 * 10
ScoreUnit == 8 * 3 * 625

\* presence_threshold = 0.2 (the constructor's default), as a fraction
PresenceNum == 1
PresenceDen == 5

\* a fraction in lowest terms, so that equal values are equal records
RECURSIVE GCD(_, _)
GCD(a, b) == IF b = 0 THEN a ELSE GCD(b, a % b)

Frac(n, d) == LET g == GCD(n, d) IN [num |-> n \div g, den |-> d \div g]

FracLess(a, b) == a.num * b.den < b.num * a.den

(***************************************************************************)
(* Python floats where their rounding matters: the times of a progression. *)
(* A positive binary64 number is [m, e] = m * 2^e with m a bit sequence,   *)
(* most significant bit first, of exactly 53 bits, the first of them 1;    *)
(* zero is [m |-> <<>>, e |-> 0].  Results are rounded to nearest, ties to *)
(* even, as IEEE 754 does.  Big naturals are bit sequences; carries run    *)
(* over digits of DigitBits bits.                                          *)
(***************************************************************************)
MantissaBits == 53
DigitBits == 15
DigitBase == 2 ^ DigitBits

FZero == [m |-> <<>>, e |-> 0]

Zeros(n) == [k \in 1..n |-> 0]

\* a bit sequence without its leading zeros
Strip(bits) ==
    IF \A k \in DOMAIN bits : bits[k] = 0 THEN <<>>
    ELSE LET first == CHOOSE k \in DOMAIN bits :
                          bits[k] = 1 /\ \A j \in 1..(k - 1) : bits[j] = 0
         IN  SubSeq(bits, first, Len(bits))

\* the width least significant bits of a natural below 2^30, as width bits
BitsOfDigit(d, width) == [k \in 1..width |-> (d \div (2 ^ (width - k))) % 2]

BitsOfInt(n) == Strip(BitsOfDigit(n, 30))

\* a bit sequence as digits, least significant digit first
ToDigits(bits) ==
    LET count == (Len(bits) + DigitBits - 1) \div DigitBits
        padded == Zeros(count * DigitBits - Len(bits)) \o bits
    IN  [k \in 1..count |->
            LET from == (count - k) * DigitBits
            IN  SumSeq([j \in 1..DigitBits |-> padded[from + j] * (2 ^ (DigitBits - j))])]

\* digits, least significant first, as a bit sequence
FromDigits(digits) ==
    LET count == Len(digits)
    IN  Strip([k \in 1..(count * DigitBits) |->
                  LET digit == digits[count - ((k - 1) \div DigitBits)]
                  IN  (digit \div (2 ^ (DigitBits - 1 - ((k - 1) % DigitBits)))) % 2])

\* digits * n + carry, for a small natural n
RECURSIVE MulDigits(_, _, _)
MulDigits(digits, n, carry) ==
    IF digits = <<>> THEN (IF carry = 0 THEN <<>> ELSE <<carry>>)
    ELSE LET t == Head(digits) * n + carry
         IN  <<t % DigitBase>> \o MulDigits(Tail(digits), n, t \div DigitBase)

\* x + y + carry on digits
RECURSIVE AddDigits(_, _, _)
AddDigits(x, y, carry) ==
    IF x = <<>> /\ y = <<>> THEN (IF carry = 0 THEN <<>> ELSE <<carry>>)
    ELSE LET t == (IF x = <<>> THEN 0 ELSE Head(x)) + (IF y = <<>> THEN 0 ELSE Head(y)) + carry
         IN  <<t % DigitBase>>
               \o AddDigits(IF x = <<>> THEN <<>> ELSE Tail(x),
                            IF y = <<>> THEN <<>> ELSE Tail(y), t \div DigitBase)

MulBits(bits, n) == FromDigits(MulDigits(ToDigits(bits), n, 0))
AddBits(x, y) == FromDigits(AddDigits(ToDigits(x), ToDigits(y), 0))

\* x < y for naturals as stripped bit sequences
LessBits(x, y) ==
    \/ Len(x) < Len(y)
    \/ /\ Len(x) = Len(y)
       /\ \E k \in DOMAIN x : x[k] < y[k] /\ \A j \in 1..(k - 1) : x[j] = y[j]

\* bits + 1 for a sequence of MantissaBits bits, with the exponent e
Increment(bits, e) ==
    IF \A k \in DOMAIN bits : bits[k] = 1
    THEN [m |-> <<1>> \o Zeros(Len(bits) - 1), e |-> e + 1]
    ELSE LET last == CHOOSE k \in DOMAIN bits :
                         bits[k] = 0 /\ \A j \in (k + 1)..Len(bits) : bits[j] = 1
         IN  [m |-> SubSeq(bits, 1, last - 1) \o <<1>> \o Zeros(Len(bits) - last), e |-> e]

\* the binary64 number nearest to bits * 2^e, ties to even
RoundToDouble(bits, e) ==
    IF bits = <<>> THEN FZero
    ELSE IF Len(bits) <= MantissaBits
    THEN [m |-> bits \o Zeros(MantissaBits - Len(bits)), e |-> e - (MantissaBits - Len(bits))]
    ELSE LET top == SubSeq(bits, 1, MantissaBits)
             guard == bits[MantissaBits + 1]
             sticky == \E k \in (MantissaBits + 2)..Len(bits) : bits[k] = 1
             e_top == e + (Len(bits) - MantissaBits)
         IN  IF guard = 1 /\ (sticky \/ top[MantissaBits] = 1)
             THEN Increment(top, e_top)
             ELSE [m |-> top, e |-> e_top]

\* n * x for a Python int n >= 0 and a float x: the rounded exact product
FMulInt(n, x) == RoundToDouble(MulBits(x.m, n), x.e)

\* a / b for Python ints a >= 0, b > 0 (true division): the rounded quotient.
\* Five digits of the fraction are computed, a last 1 stands for a remainder.
FractionDigits == 5
RECURSIVE DivDigits(_, _, _)
DivDigits(r, b, count) ==
    IF count = 0 THEN (IF r = 0 THEN <<>> ELSE <<1>>)
    ELSE BitsOfDigit((r * DigitBase) \div b, DigitBits)
           \o DivDigits((r * DigitBase) % b, b, count - 1)

FDivInt(a, b) ==
    LET fraction == DivDigits(a % b, b, FractionDigits)
        bits == Strip(BitsOfInt(a \div b) \o fraction)
    IN  RoundToDouble(bits, 0 - Len(fraction))

\* x < y and x <= y for floats
FLess(x, y) ==
    IF y = FZero THEN FALSE
    ELSE IF x = FZero THEN TRUE
    ELSE x.e < y.e \/ (x.e = y.e /\ LessBits(x.m, y.m))

FLeq(x, y) == ~FLess(y, x)

\* the real number x + y is at most z, for floats x, y, z: compared exactly
\* on the common exponent
AlignedBits(x, e) == IF x = FZero THEN <<>> ELSE x.m \o Zeros(x.e - e)

ExactSumLeq(x, y, z) ==
    LET exps == {v.e : v \in {w \in {x, y, z} : w # FZero}}
        low == IF exps = {} THEN 0 ELSE CHOOSE e \in exps : \A f \in exps : e <= f
        sum == AddBits(AlignedBits(x, low), AlignedBits(y, low))
    IN  ~LessBits(AlignedBits(z, low), sum)

\* x + y for floats x, y >= 0: the rounded exact sum
FAdd(x, y) ==
    IF x = FZero THEN y
    ELSE IF y = FZero THEN x
    ELSE LET low == IF x.e <= y.e THEN x.e ELSE y.e
         IN  RoundToDouble(AddBits(AlignedBits(x, low), AlignedBits(y, low)), low)

\* x * y on digits
RECURSIVE MulDigitsBy(_, _)
MulDigitsBy(x, y) ==
    IF y = <<>> THEN <<>>
    ELSE AddDigits(MulDigits(x, Head(y), 0), <<0>> \o MulDigitsBy(x, Tail(y)), 0)

\* x * y for floats x, y >= 0: the rounded exact product
FMul(x, y) ==
    IF x = FZero \/ y = FZero THEN FZero
    ELSE RoundToDouble(FromDigits(MulDigitsBy(ToDigits(x.m), ToDigits(y.m))), x.e + y.e)

\* x / 2 for a float x: exact
FHalf(x) == IF x = FZero THEN FZero ELSE [m |-> x.m, e |-> x.e - 1]

\* a binary64 number as the nearest binary32 number, ties to even (the value
\* is kept in the binary64 form; the exponent range of binary32 is not modelled)
SingleBits == 24
FSingle(x) ==
    IF x = FZero THEN FZero
    ELSE LET top == SubSeq(x.m, 1, SingleBits)
             guard == x.m[SingleBits + 1]
             sticky == \E k \in (SingleBits + 2)..MantissaBits : x.m[k] = 1
             up == Increment(top, x.e)
         IN  IF guard = 1 /\ (sticky \/ top[SingleBits] = 1)
             THEN [m |-> up.m \o Zeros(MantissaBits - SingleBits), e |-> up.e]
             ELSE [m |-> top \o Zeros(MantissaBits - SingleBits), e |-> x.e]

DIATONIC_PRIORITY ==
    [major |->
        (0 :> ("major" :> 100 @@ "maj7" :> 95 @@ "maj9" :> 90)
      @@ 2 :> ("minor" :> 100 @@ "min7" :> 95 @@ "min9" :> 90)
      @@ 4 :> ("minor" :> 100 @@ "min7" :> 95)
      @@ 5 :> ("major" :> 100 @@ "maj7" :> 95)
      @@ 7 :> ("major" :> 100 @@ "dom7" :> 95 @@ "9" :> 90 @@ "13" :> 85)
      @@ 9 :> ("minor" :> 100 @@ "min7" :> 95)
      @@ 11 :> ("dim" :> 100 @@ "m7b5" :> 95 @@ "dim7" :> 90)),
     minor |->
        (0 :> ("minor" :> 100 @@ "min7" :> 95 @@ "minmaj7" :> 85)
      @@ 2 :> ("dim" :> 100 @@ "m7b5" :> 95)
      @@ 3 :> ("major" :> 100 @@ "maj7" :> 95)
      @@ 5 :> ("minor" :> 100 @@ "min7" :> 95)
      @@ 7 :> ("minor" :> 80 @@ "dom7" :> 100 @@ "major" :> 90)
      @@ 8 :> ("major" :> 100 @@ "maj7" :> 95)
      @@ 10 :> ("major" :> 100 @@ "dom7" :> 95)
      @@ 11 :> ("dim" :> 100 @@ "dim7" :> 95))]

\* self._templates: the catalog sorted by descending priority (the binary
\* template vectors built beside it are never read by the matcher)
build_templates == SortByPriorityDesc(CHORD_TEMPLATES)

\* _normalize_hpcp: divide by the maximum when it is positive
normalize_hpcp(hpcp) ==
    LET max_val == MaxSeq(hpcp)
    IN  IF max_val > 0
        THEN [num |-> hpcp, den |-> max_val]
        ELSE [num |-> hpcp, den |-> BinUnit]

\* np.max(hpcp) < self.presence_threshold, on the normalized vector
BelowPresence(h) == MaxSeq(h.num) * PresenceDen < PresenceNum * h.den

\* a bug that rolls the vector the other way: np.roll(arr, shift)
rotate_Reversed(arr, shift) ==
    [i \in 1..Len(arr) |-> arr[((i - 1 - shift) % Len(arr)) + 1]]

\* _rotate: np.roll(arr, -shift), result[i] = arr[(i + shift) mod n]
rotate(arr, shift) ==
    [i \in 1..Len(arr) |-> arr[((i - 1 + shift) % Len(arr)) + 1]]

\* _detect_bass: np.argmax, the first index holding the maximum
detect_bass(h) ==
    (CHOOSE i \in 1..Len(h.num) :
        /\ h.num[i] = MaxSeq(h.num)
        /\ \A j \in 1..(i - 1) : h.num[j] < h.num[i]) - 1

\* _get_diatonic_bonus, in units of 1/ScoreUnit: priority * 0.005
get_diatonic_bonus(root_idx, quality, key_idx, mode) ==
    IF mode \notin DOMAIN DIATONIC_PRIORITY THEN 0
    ELSE LET scale_degree == (root_idx - key_idx) % 12
             table == DIATONIC_PRIORITY[mode]
             degree_qualities ==
                 IF scale_degree \in DOMAIN table THEN table[scale_degree] ELSE <<>>
             priority ==
                 IF quality \in DOMAIN degree_qualities
                 THEN degree_qualities[quality] ELSE 0
         IN  (priority * ScoreUnit * 5) \div 1000

\* the intervals above the presence threshold in a rotated vector
Present(rotated, den) ==
    {i \in 0..11 : rotated[i + 1] * PresenceDen > PresenceNum * den}

\* _get_active_intervals, as the ascending list the comprehension builds
get_active_intervals(h, root) ==
    LET present == Present(rotate(h.num, root), h.den)
    IN  SelectSeq(<<0, 1, 2, 3, 4, 5, 6, 7, 8, 9, 10, 11>>, LAMBDA i : i \in present)

\* the rejection tests of _correlation_match for one template
ForbiddenPresent(ct, present) == \E k \in DOMAIN ct.forbidden : ct.forbidden[k] \in present

RequiredPresent(ct, rotated, den) ==
    \A k \in DOMAIN ct.intervals :
        rotated[(ct.intervals[k] % 12) + 1] * PresenceDen * 2 > PresenceNum * den

\* a bug that forgets the penalty for notes the template does not explain
ExtraPenalty_None(extra_notes, den) == 0

\* extra_penalty = len(extra_notes) * 0.1, times ScoreUnit * den
ExtraPenalty(extra_notes, den) == (Cardinality(extra_notes) * ScoreUnit * den) \div 10

\* the score of _correlation_match for one template, times ScoreUnit * den
TemplateScore(ct, rotated, den, present) ==
    LET n == Len(ct.intervals)
        required_sum == SumSeq([k \in 1..n |-> rotated[(ct.intervals[k] % 12) + 1]])
        required_score == (required_sum * ScoreUnit) \div n
        optional_bonus ==
            SumSeq([k \in 1..Len(ct.optional) |->
                LET v == rotated[(ct.optional[k] % 12) + 1]
                IN  IF v * PresenceDen > PresenceNum * den
                    THEN (v * ScoreUnit * 15) \div 100 ELSE 0])
        template_intervals == Range(ct.intervals) \cup Range(ct.optional)
        extra_notes == present \ template_intervals
        extra_penalty == ExtraPenalty(extra_notes, den)
        priority_bonus == (ct.priority * ScoreUnit * den * 2) \div 1000
    IN  required_score + optional_bonus - extra_penalty + priority_bonus

\* _correlation_match: the accepted templates with their scores, best first
correlation_match(h, root) ==
    LET rotated == rotate(h.num, root)
        present == Present(rotated, h.den)
        Keep(ct) == /\ ~ForbiddenPresent(ct, present)
                    /\ RequiredPresent(ct, rotated, h.den)
                    /\ TemplateScore(ct, rotated, h.den, present) > 0
        kept == SelectSeq(build_templates, Keep)
        matches == [k \in 1..Len(kept) |->
                       [ct |-> kept[k],
                        score |-> TemplateScore(kept[k], rotated, h.den, present)]]
    IN  SortByScoreDesc(matches)

\* the key name to pitch class conversion at the head of analyze_frame
parse_key(key) ==
    IF key = NoName \/ key = <<>> THEN NoIndex
    ELSE LET key_upper ==
                 Replace(Replace(Replace(Replace(Replace(Upper(key),
                     <<"B">>, <<"A", "#">>),
                     <<"D", "B">>, <<"C", "#">>),
                     <<"E", "B">>, <<"D", "#">>),
                     <<"G", "B">>, <<"F", "#">>),
                     <<"A", "B">>, <<"G", "#">>)
         IN  IF key_upper \in Range(PITCH_CLASSES) THEN PitchIndex(key_upper)
             ELSE IF Upper(key) \in Range(PITCH_CLASSES) THEN PitchIndex(Upper(key))
             ELSE NoIndex

\* a bug that reports the detected bass with every result
ReportedBass_Always(b, r) == PITCH_CLASSES[b + 1]

\* the bass name analyze_frame reports with a result rooted on root_idx
ReportedBass(b, r) ==
    IF b # r THEN PITCH_CLASSES[b + 1] ELSE NoName

\* the score of a root's best match after the bass boost and the diatonic bonus
FinalScore(m, h, bass_idx, key_idx, mode, root_idx) ==
    LET boosted == IF root_idx = bass_idx THEN (m.score * 6) \div 5 ELSE m.score
    IN  IF key_idx # NoIndex /\ mode # None /\ mode # ""
        THEN boosted + get_diatonic_bonus(root_idx, m.ct.name, key_idx, mode) * h.den
        ELSE boosted

\* a bug that lets a later root win a tie
TryRoot_LastWins(best, h, bass_idx, key_idx, mode, root_idx) ==
    LET matches == correlation_match(h, root_idx)
    IN  IF matches = <<>> THEN best
        ELSE LET score == FinalScore(matches[1], h, bass_idx, key_idx, mode, root_idx)
             IN  IF score >= best.score
                 THEN [score |-> score,
                       result |->
                         [kind |-> "ChordResult",
                          root |-> PITCH_CLASSES[root_idx + 1],
                          quality |-> matches[1].ct.name,
                          bass |-> ReportedBass(bass_idx, root_idx),
                          confidence |->
                              IF score > ScoreUnit * h.den THEN Frac(1, 1)
                              ELSE Frac(score, ScoreUnit * h.den),
                          all_intervals |-> get_active_intervals(h, root_idx)]]
                 ELSE best

\* one iteration of analyze_frame's loop over the candidate roots:
\* best is [score, result], the running best_score and best_result
TryRoot(best, h, bass_idx, key_idx, mode, root_idx) ==
    LET matches == correlation_match(h, root_idx)
    IN  IF matches = <<>> THEN best
        ELSE LET score == FinalScore(matches[1], h, bass_idx, key_idx, mode, root_idx)
             IN  IF score > best.score
                 THEN [score |-> score,
                       result |->
                         [kind |-> "ChordResult",
                          root |-> PITCH_CLASSES[root_idx + 1],
                          quality |-> matches[1].ct.name,
                          bass |-> ReportedBass(bass_idx, root_idx),
                          confidence |->
                              IF score > ScoreUnit * h.den THEN Frac(1, 1)
                              ELSE Frac(score, ScoreUnit * h.den),
                          all_intervals |-> get_active_intervals(h, root_idx)]]
                 ELSE best

NoBest == [score |-> 0, result |-> NoResult]

RECURSIVE TryRoots(_, _, _, _, _, _)
TryRoots(best, h, bass_idx, key_idx, mode, root_idx) ==
    IF root_idx = 12 THEN best
    ELSE TryRoots(TryRoot(best, h, bass_idx, key_idx, mode, root_idx),
                  h, bass_idx, key_idx, mode, root_idx + 1)

\* a bug that rejects only vectors that are too short
LengthOk_AtLeast(hpcp) == Len(hpcp) >= 12

\* the guard of analyze_frame: len(hpcp) != 12 raises
LengthOk(hpcp) == Len(hpcp) = 12

\* a bug that answers None for a vector of the wrong length
analyze_frame_NoneOnWrongLength(hpcp, key, mode) ==
    IF ~LengthOk(hpcp) THEN NoResult
    ELSE LET h == normalize_hpcp(hpcp)
         IN  IF BelowPresence(h) THEN NoResult
             ELSE TryRoots(NoBest, h, detect_bass(h), parse_key(key), mode, 0).result

\* analyze_frame as a function of its arguments: ValueError, None (NoResult)
\* or a ChordResult
analyze_frame(hpcp, key, mode) ==
    IF ~LengthOk(hpcp) THEN ValueError
    ELSE LET h == normalize_hpcp(hpcp)
         IN  IF BelowPresence(h) THEN NoResult
             ELSE TryRoots(NoBest, h, detect_bass(h), parse_key(key), mode, 0).result


(***************************************************************************)
(* State.  One call of analyze_frame and one call of analyze_progression,  *)
(* each with its arguments, its locals and its position.                   *)
(***************************************************************************)
(***************************************************************************)
(* ChordExtractor._find_hpcp_rotation and the tempo correction of          *)
(* extract_chords.  The frames come from Essentia as binary32 arrays, so   *)
(* the averaged vector and its normalization are binary32.  The width of   *)
(* the sums and of the product with 1.1 depends on the NumPy of the build: *)
(* "legacy" promotion (NumPy 1) gives binary64 scalars, "weak" promotion   *)
(* (NumPy 2) keeps binary32.                                               *)
(***************************************************************************)
Promotions == {"legacy", "weak"}

Narrow(promotion, x) == IF promotion = "weak" THEN FSingle(x) ELSE x

pitch_class_map ==
    [k \in {"C", "C#", "Db", "D", "D#", "Eb", "E", "F", "F#", "Gb", "G", "G#",
            "Ab", "A", "A#", "Bb", "B"} |->
        CASE k = "C" -> 0
          [] k \in {"C#", "Db"} -> 1
          [] k = "D" -> 2
          [] k \in {"D#", "Eb"} -> 3
          [] k = "E" -> 4
          [] k = "F" -> 5
          [] k \in {"F#", "Gb"} -> 6
          [] k = "G" -> 7
          [] k \in {"G#", "Ab"} -> 8
          [] k = "A" -> 9
          [] k \in {"A#", "Bb"} -> 10
          [] k = "B" -> 11]

\* pitch_class_map.get(key, 0)
key_root(name) == IF name \in DOMAIN pitch_class_map THEN pitch_class_map[name] ELSE 0

triad(name, scale) ==
    LET k == key_root(name)
    IN  IF scale = "minor" THEN <<k, (k + 3) % 12, (k + 7) % 12>>
        ELSE <<k, (k + 4) % 12, (k + 7) % 12>>

\* np.roll(arr, shift): result[i] = arr[(i - shift) mod n]
roll(arr, shift) ==
    [i \in 1..Len(arr) |-> arr[((i - 1 - shift) % Len(arr)) + 1]]

\* avg_hpcp / np.max(avg_hpcp) when the maximum is positive; the averaged
\* vector holds whole numbers of some binary unit
RECURSIVE Quotients(_, _)
Quotients(values, divisor) ==
    IF values = <<>> THEN <<>>
    ELSE <<FSingle(FDivInt(Head(values), divisor))>> \o Quotients(Tail(values), divisor)

NormalizedAverage(avg) ==
    IF MaxSeq(avg) > 0 THEN Quotients(avg, MaxSeq(avg))
    ELSE [i \in 1..Len(avg) |-> FZero]

\* sum(v[pc] for pc in triad): 0 + v[a] + v[b] + v[c], left to right
TriadScore(v, tr, promotion) ==
    Narrow(promotion, FAdd(Narrow(promotion, FAdd(v[tr[1] + 1], v[tr[2] + 1])),
                           v[tr[3] + 1]))

\* best_score = -1 before the loop: below the score of every rotation of a
\* non-negative vector
MinusOne == [m |-> <<>>, e |-> -1]

\* a bug that keeps the rotation with the lowest score
ScoreBeats_Lower(score, best_score) == best_score = MinusOne \/ FLess(score, best_score)

\* if score > best_score
ScoreBeats(score, best_score) == best_score = MinusOne \/ FLess(best_score, score)

\* the loop over rotation in range(12), from the given rotation on
RECURSIVE TryRotations(_, _, _, _, _)
TryRotations(v, tr, promotion, rotation, best) ==
    IF rotation = 12 THEN best
    ELSE LET score == TriadScore(roll(v, 0 - rotation), tr, promotion)
         IN  TryRotations(v, tr, promotion, rotation + 1,
                 IF ScoreBeats(score, best.score)
                 THEN [rotation |-> rotation, score |-> score]
                 ELSE best)

\* 1.1 as the float the product is computed with
Margin(promotion) == Narrow(promotion, FDivInt(11, 10))

\* _find_hpcp_rotation from the averaged vector on; NoFrames is an audio
\* sample no frame was extracted from
NoFrames == <<>>

find_hpcp_rotation(avg, name, scale, promotion) ==
    IF avg = NoFrames THEN 0
    ELSE LET v == NormalizedAverage(avg)
             tr == triad(name, scale)
             best == TryRotations(v, tr, promotion, 0, [rotation |-> 0, score |-> MinusOne])
             unrotated_score == TriadScore(v, tr, promotion)
         IN  IF FLess(Narrow(promotion, FMul(unrotated_score, Margin(promotion))), best.score)
             THEN best.rotation
             ELSE 0

\* extract_chords, lines 95-98: every frame rolled left by the rotation; the
\* average of the rolled frames is the rolled average
RotatedAverage_Right(avg, rotation) ==
    IF rotation # 0 /\ avg # NoFrames THEN roll(avg, rotation) ELSE avg

RotatedAverage(avg, rotation) ==
    IF rotation # 0 /\ avg # NoFrames THEN roll(avg, 0 - rotation) ELSE avg

(***************************************************************************)
(* deconstructor.py: Chord and ProgressionDeconstructor.  A chord's        *)
(* extensions are a dict from extension keys to booleans; roots and symbols*)
(* are strings of characters.  The texts of a step (its Roman numerals and *)
(* its description, which comes from the explanation service) are not      *)
(* modelled.                                                               *)
(***************************************************************************)
EmptyMap == [k \in {} |-> TRUE]

\* self.extensions.get(key, False)
has_extension(chord, key) == key \in DOMAIN chord.extensions /\ chord.extensions[key]

\* extensions[key] = True for every key of keys
WithKeys(extensions, keys) ==
    [k \in DOMAIN extensions \cup keys |-> IF k \in keys THEN TRUE ELSE extensions[k]]

\* Chord(root, quality, extensions, original_symbol): extensions or {}
Chord(root, quality, extensions, original_symbol) ==
    [root |-> root, quality |-> quality, extensions |-> extensions,
     original_symbol |-> original_symbol]

\* Chord.to_dict
chord_to_dict(chord) ==
    [root |-> chord.root, quality |-> chord.quality, extensions |-> chord.extensions]

SeventhKeys == <<"maj7", "min7", "dom7", "dim7">>
SuspensionKeys == <<"sus4", "sus2">>
ExtensionKeys == <<"add9", "add11", "add13", "add6">>
AlterationKeys == <<"b5", "#5", "b9", "#9", "#11", "b13">>

has_any_seventh(chord) == \E k \in Range(SeventhKeys) : has_extension(chord, k)

\* a bug that sees sus4 only
has_any_suspension_Sus4Only(chord) == has_extension(chord, "sus4")

has_any_suspension(chord) == has_extension(chord, "sus2") \/ has_extension(chord, "sus4")

has_any_extension(chord) == \E k \in Range(ExtensionKeys) : has_extension(chord, k)

has_any_alteration(chord) == \E k \in Range(AlterationKeys) : has_extension(chord, k)

\* Chord.remove_extensions
remove_extensions(chord) == [chord EXCEPT !.extensions = EmptyMap]

\* Chord.to_symbol: the suffix of the quality
triad_suffix(q) ==
    CASE q = "minor" -> <<"m">>
      [] q = "diminished" -> <<"d", "i", "m">>
      [] q = "augmented" -> <<"+">>
      [] OTHER -> <<>>

\* Chord.to_symbol: the suffix with the first seventh the chord has
seventh_suffix(chord, suffix) ==
    IF ~has_any_seventh(chord) THEN suffix
    ELSE IF has_extension(chord, "maj7") THEN suffix \o <<"m", "a", "j", "7">>
    ELSE IF has_extension(chord, "min7")
         THEN suffix \o (IF chord.quality = "minor" THEN <<"7">> ELSE <<"m", "7">>)
    ELSE IF has_extension(chord, "dom7") THEN suffix \o <<"7">>
    ELSE IF has_extension(chord, "dim7") THEN suffix \o <<"d", "i", "m", "7">>
    ELSE suffix

\* Chord.to_symbol: suffix.replace('7', '7' + sus) if '7' in suffix else sus
suspension_suffix(chord, key, sus, suffix) ==
    IF has_extension(chord, key)
    THEN (IF Contains(suffix, <<"7">>) THEN Replace(suffix, <<"7">>, <<"7">> \o sus)
          ELSE sus)
    ELSE suffix

\* Chord.to_symbol: suffix.replace(old, new) if old in suffix else suffix + added
addition_suffix(chord, key, old, new, added, suffix) ==
    IF has_extension(chord, key)
    THEN (IF Contains(suffix, old) THEN Replace(suffix, old, new)
          ELSE suffix \o added)
    ELSE suffix

\* Chord.to_symbol (and __repr__, __str__)
chord_to_symbol(chord) ==
    chord.root \o
        addition_suffix(chord, "add13", <<"1", "1">>, <<"1", "3">>, <<"a", "d", "d", "1", "3">>,
            addition_suffix(chord, "add11", <<"9">>, <<"1", "1">>, <<"a", "d", "d", "1", "1">>,
                addition_suffix(chord, "add9", <<"7">>, <<"9">>, <<"a", "d", "d", "9">>,
                    suspension_suffix(chord, "sus2", <<"s", "u", "s", "2">>,
                        suspension_suffix(chord, "sus4", <<"s", "u", "s", "4">>,
                            seventh_suffix(chord, triad_suffix(chord.quality)))))))

\* the chord dicts of the request as Chord objects; a dict may lack "extensions"
\* and "symbol"
chord_objects(chords) ==
    [i \in DOMAIN chords |->
        Chord(chords[i].root, chords[i].quality,
              IF "extensions" \in DOMAIN chords[i] THEN chords[i].extensions ELSE EmptyMap,
              IF "symbol" \in DOMAIN chords[i] THEN chords[i].symbol ELSE None)]

\* extract_skeleton: a copy of every chord, its extensions removed
extract_skeleton(chords) == [i \in DOMAIN chords |-> remove_extensions(chords[i])]

\* a set of indices as an ascending list
RECURSIVE Ascending(_)
Ascending(S) ==
    IF S = {} THEN <<>>
    ELSE LET least == CHOOSE i \in S : \A j \in S : i <= j
         IN  <<least>> \o Ascending(S \ {least})

NoLayers == [sevenths |-> <<>>, suspensions |-> <<>>, extensions |-> <<>>, alterations |-> <<>>]

\* the indices (from 0) of the chords of each layer, ascending
identify_layers(original) ==
    [sevenths |->
        Ascending({i - 1 : i \in {j \in DOMAIN original : has_any_seventh(original[j])}}),
     suspensions |->
        Ascending({i - 1 : i \in {j \in DOMAIN original : has_any_suspension(original[j])}}),
     extensions |->
        Ascending({i - 1 : i \in {j \in DOMAIN original : has_any_extension(original[j])}}),
     alterations |->
        Ascending({i - 1 : i \in {j \in DOMAIN original : has_any_alteration(original[j])}})]

\* the keys of the list that the chord has: all of them, or the first only
KeysPresent(chord, keys) == {k \in Range(keys) : has_extension(chord, k)}

FirstKeyPresent(chord, keys) ==
    {keys[i] : i \in {j \in DOMAIN keys :
                        /\ has_extension(chord, keys[j])
                        /\ \A h \in 1..(j - 1) : ~has_extension(chord, keys[h])}}

\* the loop shared by add_sevenths, add_suspensions, add_extensions and
\* add_alterations: copies of base_chords, with keys of the original chord
\* added at the indices that are within both lists; add_sevenths stops at the
\* first key the original chord has
AddAt(base_chords, original, indices, keys, first_only) ==
    [i \in DOMAIN base_chords |->
        IF (i - 1) \in Range(indices) /\ i <= Len(original)
        THEN [base_chords[i] EXCEPT
                !.extensions =
                    WithKeys(base_chords[i].extensions,
                             IF first_only THEN FirstKeyPresent(original[i], keys)
                             ELSE KeysPresent(original[i], keys))]
        ELSE base_chords[i]]

add_sevenths(base_chords, original, indices) ==
    AddAt(base_chords, original, indices, SeventhKeys, TRUE)

add_suspensions(base_chords, original, indices) ==
    AddAt(base_chords, original, indices, SuspensionKeys, FALSE)

add_extensions(base_chords, original, indices) ==
    AddAt(base_chords, original, indices, ExtensionKeys, FALSE)

add_alterations(base_chords, original, indices) ==
    AddAt(base_chords, original, indices, AlterationKeys, FALSE)

find_modified_indices(prev_chords, curr_chords) ==
    LET shorter == IF Len(prev_chords) <= Len(curr_chords) THEN Len(prev_chords)
                   ELSE Len(curr_chords)
    IN  Ascending({i - 1 : i \in {j \in 1..shorter :
                       chord_to_symbol(prev_chords[j]) # chord_to_symbol(curr_chords[j])}})

Step(name, chords, layer_type, modified_indices) ==
    [name |-> name, chords |-> chords, layer_type |-> layer_type,
     modified_indices |-> modified_indices]

\* steps[:6]
MaxSteps == 6

create_steps(skeleton, layers, original) ==
    LET with7 == IF layers.sevenths # <<>>
                 THEN add_sevenths(skeleton, original, layers.sevenths) ELSE skeleton
        withSus == IF layers.suspensions # <<>>
                   THEN add_suspensions(with7, original, layers.suspensions) ELSE with7
        withExt == IF layers.extensions # <<>>
                   THEN add_extensions(withSus, original, layers.extensions) ELSE withSus
        withAlt == IF layers.alterations # <<>>
                   THEN add_alterations(withExt, original, layers.alterations) ELSE withExt
        steps ==
            <<Step("Skeleton", skeleton, "skeleton", <<>>)>>
            \o (IF layers.sevenths # <<>>
                THEN <<Step("Add 7ths", with7, "sevenths",
                            find_modified_indices(skeleton, with7))>>
                ELSE <<>>)
            \o (IF layers.suspensions # <<>>
                THEN <<Step("Add Suspensions", withSus, "suspensions",
                            find_modified_indices(with7, withSus))>>
                ELSE <<>>)
            \o (IF layers.extensions # <<>>
                THEN <<Step("Add Extensions", withExt, "extensions",
                            find_modified_indices(withSus, withExt))>>
                ELSE <<>>)
            \o (IF layers.alterations # <<>>
                THEN <<Step("Complex Alterations", withAlt, "alterations",
                            find_modified_indices(withExt, withAlt))>>
                ELSE <<>>)
    IN  SubSeq(steps, 1, IF Len(steps) < MaxSteps THEN Len(steps) ELSE MaxSteps)

\* the response step that deconstruct builds from a step and its number
result_step(step_number, step) ==
    [stepNumber |-> step_number,
     stepName |-> step.name,
     chords |-> [i \in DOMAIN step.chords |-> chord_to_dict(step.chords[i])],
     layerType |-> step.layer_type,
     modifiedIndices |-> step.modified_indices]

\* a Python int n >= 0 as a float
FInt(n) == FDivInt(n, 1)

\* beats_per_second: len(beats) / audio_duration if audio_duration > 0 else 0,
\* with audio_duration = len(audio) / sample_rate a whole number of seconds
beats_per_second(beats, samples, rate) ==
    IF FLess(FZero, FDivInt(samples, rate))
    THEN FDivInt(beats, samples \div rate)
    ELSE FZero

\* the tempo octave correction of extract_chords, lines 77-85
corrected_tempo(bpm, beats, samples, rate) ==
    IF FLess(FInt(100), bpm)
    THEN IF FLess(beats_per_second(beats, samples, rate), FInt(3)) /\ FLess(FInt(100), bpm)
         THEN FHalf(bpm)
         ELSE bpm
    ELSE bpm

VARIABLES
    af_pc,          \* analyze_frame: "start", "normalize", "energy", "roots",
                    \*                "returned", "raised", or "idle" (no call)
    af_hpcp,        \* the hpcp argument, in units of 1/BinUnit
    af_key,         \* the key argument (a name, or NoName)
    af_mode,        \* the mode argument (a string, or None)
    af_norm,        \* hpcp after _normalize_hpcp
    af_bass_idx,
    af_key_idx,
    af_root_idx,       \* the loop variable of the root loop
    af_best,           \* [score, result]: best_score and best_result
    af_result,      \* what the call returned (NoResult for None) or raised
    ap_pc,          \* analyze_progression: "loop", "returned", "raised",
                    \*                      or "idle" (no call)
    hpcps,          \* the frames, each in units of 1/BinUnit
    hop_size,
    sample_rate,
    min_duration,   \* a fraction of a second
    ap_key,
    ap_mode,
    ap_i,           \* the loop variable i: the index of the frame the loop is at
    current_chord,  \* a chord symbol, or NoName
    chord_start_time,
    chord_start_idx,
    chord_results,
    progression,
    cm_pc,          \* two calls of _correlation_match: "start", "rotated", "done",
                    \*                                  or "idle" (no call)
    cm_hpcp,        \* a normalized vector
    cm_shift,       \* the number of semitones the vector is rotated up by
    cm_root,        \* the candidate root
    cm_direct,      \* the matches of the rotated vector at cm_root
    cm_shifted,     \* the matches of the vector itself at cm_root - cm_shift
    rc_pc,          \* two runs of _find_hpcp_rotation: "start", "rotated", "done",
                    \*                                   or "idle" (no call)
    rc_avg,         \* the averaged vector of the audio sample, or NoFrames
    rc_key,
    rc_mode,
    rc_promotion,   \* the scalar promotion of the NumPy of the build
    rc_first,       \* the rotation the first run returned
    rc_rotated,     \* the averaged vector of the frames after the rotation
    rc_second,      \* the rotation the run on the rotated frames returned
    tc_pc,  \* the tempo correction run twice: "start", "corrected", "done", or "idle"
    tc_bpm,  \* the tempo RhythmExtractor2013 detected, a float
    tc_beats,  \* len(beats)
    tc_samples,  \* len(audio)
    tc_once,  \* the tempo after the correction
    tc_twice, \* the tempo after the correction of the corrected tempo
    td_pc,  \* to_dict on two results of one template: "start", "first", "done", or "idle"
    td_template,  \* the template of CHORD_TEMPLATES that matched
    td_a,  \* a ChordResult of the template
    td_b,  \* another ChordResult of the template
    td_da,  \* td_a.to_dict()
    td_db, \* td_b.to_dict()
    dc_pc,  \* deconstruct: "start", "objects", "skeleton", "layers", "explain", "returned", or "idle"
    dc_chords,  \* the chords argument: a list of chord dicts
    dc_objects,  \* chord_objects
    dc_skeleton,  \* skeleton
    dc_layers,  \* layers
    dc_steps,  \* progression_steps
    dc_result, \* result_steps
    yd_pc,          \* analyze_audio on a YouTube request: "start", "awaiting",
                    \* "timeout_wav", "timeout_base", "extract", "success_wav",
                    \* "success_base", "responded", or "idle" (no request)
    yd_worker,      \* the thread of _download_audio_sync: "unstarted", "fetch",
                    \* "convert", "return", "except_wav", "except_base",
                    \* "returned", "raised"
    yd_files,       \* the files of the video id in the temp directory:
                    \* "wav" (<id>.wav) and "base" (<id>)
    yd_error,       \* the exception _download_audio_sync caught, or None
    yd_timeout,     \* TRUE once download_audio has raised asyncio.TimeoutError
    yd_response     \* the error code of the response, "success", or None

af_vars == <<af_pc, af_hpcp, af_key, af_mode, af_norm, af_bass_idx, af_key_idx,
             af_root_idx, af_best, af_result>>

ap_vars == <<ap_pc, hpcps, hop_size, sample_rate, min_duration, ap_key, ap_mode,
             ap_i, current_chord, chord_start_time, chord_start_idx, chord_results,
             progression>>

cm_vars == <<cm_pc, cm_hpcp, cm_shift, cm_root, cm_direct, cm_shifted>>

rc_vars == <<rc_pc, rc_avg, rc_key, rc_mode, rc_promotion, rc_first, rc_rotated,
             rc_second>>

tc_vars == <<tc_pc, tc_bpm, tc_beats, tc_samples, tc_once, tc_twice>>

td_vars == <<td_pc, td_template, td_a, td_b, td_da, td_db>>

dc_vars == <<dc_pc, dc_chords, dc_objects, dc_skeleton, dc_layers, dc_steps, dc_result>>

yd_vars == <<yd_pc, yd_worker, yd_files, yd_error, yd_timeout, yd_response>>

vars == <<af_vars, ap_vars, cm_vars, rc_vars, tc_vars, td_vars, dc_vars, yd_vars>>

\* what the steps of one call leave alone: the other calls
not_af_vars == <<ap_vars, cm_vars, rc_vars, tc_vars, td_vars, dc_vars, yd_vars>>
not_ap_vars == <<af_vars, cm_vars, rc_vars, tc_vars, td_vars, dc_vars, yd_vars>>
not_cm_vars == <<af_vars, ap_vars, rc_vars, tc_vars, td_vars, dc_vars, yd_vars>>
not_rc_vars == <<af_vars, ap_vars, cm_vars, tc_vars, td_vars, dc_vars, yd_vars>>
not_tc_vars == <<af_vars, ap_vars, cm_vars, rc_vars, td_vars, dc_vars, yd_vars>>
not_td_vars == <<af_vars, ap_vars, cm_vars, rc_vars, tc_vars, dc_vars, yd_vars>>
not_dc_vars == <<af_vars, ap_vars, cm_vars, rc_vars, tc_vars, td_vars, yd_vars>>
not_yd_vars == <<af_vars, ap_vars, cm_vars, rc_vars, tc_vars, td_vars, dc_vars>>

\* no call of _correlation_match
RCIdle ==
    /\ rc_pc = "idle"
    /\ rc_avg = NoFrames /\ rc_rotated = NoFrames
    /\ rc_key = "C" /\ rc_mode = "major" /\ rc_promotion = "legacy"
    /\ rc_first = 0 /\ rc_second = 0

TCIdle ==
    /\ tc_pc = "idle"
    /\ tc_bpm = FZero /\ tc_beats = 0 /\ tc_samples = 0
    /\ tc_once = FZero /\ tc_twice = FZero

TDIdle ==
    /\ td_pc = "idle"
    /\ td_template = CHORD_TEMPLATES[1]
    /\ td_a = NoResult /\ td_b = NoResult
    /\ td_da = NoResult /\ td_db = NoResult

DCIdle ==
    /\ dc_pc = "idle"
    /\ dc_chords = <<>> /\ dc_objects = <<>> /\ dc_skeleton = <<>>
    /\ dc_layers = NoLayers
    /\ dc_steps = <<>> /\ dc_result = <<>>

YDIdle ==
    /\ yd_pc = "idle"
    /\ yd_worker = "unstarted"
    /\ yd_files = {}
    /\ yd_error = None
    /\ yd_timeout = FALSE
    /\ yd_response = None

CMIdle ==
    /\ cm_pc = "idle"
    /\ cm_hpcp = [num |-> <<>>, den |-> 1]
    /\ cm_shift = 0 /\ cm_root = 0
    /\ cm_direct = <<>> /\ cm_shifted = <<>>

(***************************************************************************)
(* Inputs of analyze_frame.  A shape is a 12-vector of levels (tenths of   *)
(* the strongest bin) relative to a root at index 0; Voicing transposes it *)
(* to a root and scales it by a gain.                                      *)
(***************************************************************************)
MaxNotes == 3

FullLevel == 10 * 1
Levels == {7, FullLevel}
WeakLevels == {3, 5, 7, 8, 9}
Gains == {1, 10}
FullGain == 10 * 1

Shape(notes) ==
    [i \in 1..12 |-> IF \E n \in notes : n[1] = i - 1
                     THEN (CHOOSE n \in notes : n[1] = i - 1)[2] ELSE 0]

Voicing(shape, root, gain) ==
    [i \in 1..12 |-> gain * shape[((i - 1 - root) % 12) + 1]]

\* every vector with at most MaxNotes sounding bins, each at a level of Levels,
\* the strongest at FullLevel
SparseVectors ==
    UNION { { [i \in 1..12 |-> IF i \in S THEN FullGain * f[i] ELSE 0] :
                f \in {g \in [S -> Levels] : \E i \in S : g[i] = FullLevel} } :
            S \in {T \in SUBSET (1..12) : Cardinality(T) \in 1..MaxNotes} }

\* the voicings of the module's self-test that the properties are about
MajorFull == Shape({<<0, 10>>, <<4, 10>>, <<7, 10>>})
MajorRootPos == Shape({<<0, 10>>, <<4, 8>>, <<7, 9>>})
FirstInversion == Shape({<<4, 10>>, <<0, 7>>, <<7, 8>>})
SecondInversion == Shape({<<7, 10>>, <<0, 7>>, <<4, 8>>})
Dom7Full == Shape({<<0, 10>>, <<4, 8>>, <<7, 9>>, <<10, 7>>})
Silence == Shape({})

\* root at full level, third and seventh at weaker levels, no fifth
ShellSeventh(third, seventh, a, b) == Shape({<<0, 10>>, <<third, a>>, <<seventh, b>>})
ShellShapes ==
    { ShellSeventh(ts[1], ts[2], a, b) :
        ts \in {<<4, 11>>, <<4, 10>>, <<3, 10>>}, a \in WeakLevels, b \in WeakLevels }

\* two bins a tritone apart
TritoneDyad(x) == Shape({<<0, 10>>, <<6, x>>})
TritoneShapes == { TritoneDyad(x) : x \in WeakLevels \cup {FullLevel} }

TestShapes == {MajorFull, MajorRootPos, FirstInversion, SecondInversion, Dom7Full}

\* a tritone with a weak major third above its lower bin: the third and the
\* seventh of two dominant chords a tritone apart
TritoneWithThird(x) == Shape({<<0, 10>>, <<4, 3>>, <<6, x>>})
TieShapes == { TritoneWithThird(x) : x \in {8, FullLevel} }

\* vectors that are not 12 long: a triad cut short, one too long, an empty one
WrongLength ==
    { SubSeq(Voicing(MajorRootPos, 0, FullGain), 1, 11),
      Voicing(MajorRootPos, 0, FullGain) \o <<0>>,
      <<>> }

KeyNames == { <<"C">>, <<"G">>, <<"A">>, <<"B">>, <<"B", "b">>, <<"D", "b">>,
              <<"f", "#">>, <<"H">>, <<>> }
Modes == { "major", "minor", "dorian", None }

\* the calls of analyze_frame the model makes: (hpcp, key, mode)
FrameCalls ==
       { <<v, NoName, None>> : v \in SparseVectors \cup WrongLength }
  \cup { <<Voicing(sh, r, g), NoName, None>> :
            sh \in TestShapes \cup TritoneShapes \cup {Silence} , r \in 0..11, g \in Gains }
  \cup { <<Voicing(sh, r, FullGain), NoName, None>> :
            sh \in ShellShapes \cup TieShapes, r \in 0..11 }
  \cup { <<Voicing(sh, r, FullGain), k, m>> :
            sh \in {FirstInversion, MajorRootPos}, r \in {0, 4, 7, 11},
            k \in KeyNames, m \in Modes }

\* no call of analyze_progression
APIdle ==
    /\ ap_pc = "idle"
    /\ hpcps = <<>> /\ hop_size = 1 /\ sample_rate = 1
    /\ min_duration = FZero
    /\ ap_key = NoName /\ ap_mode = None
    /\ ap_i = 0
    /\ current_chord = NoName
    /\ chord_start_time = FZero
    /\ chord_start_idx = 0
    /\ chord_results = <<>>
    /\ progression = <<>>

AFInit ==
    /\ APIdle /\ CMIdle /\ RCIdle /\ TCIdle /\ TDIdle /\ DCIdle /\ YDIdle
    /\ \E c \in FrameCalls : af_hpcp = c[1] /\ af_key = c[2] /\ af_mode = c[3]
    /\ af_pc = "start"
    /\ af_norm = [num |-> <<>>, den |-> 1]
    /\ af_bass_idx = NoIndex
    /\ af_key_idx = NoIndex
    /\ af_root_idx = NoIndex
    /\ af_best = NoBest
    /\ af_result = NoResult

(***************************************************************************)
(* analyze_frame, statement by statement                                   *)
(***************************************************************************)
\* if len(hpcp) != 12: raise ValueError
AFCheckLength ==
    /\ af_pc = "start"
    /\ IF ~LengthOk(af_hpcp)
       THEN af_pc' = "raised" /\ af_result' = ValueError
       ELSE af_pc' = "normalize" /\ UNCHANGED af_result
    /\ UNCHANGED <<af_hpcp, af_key, af_mode, af_norm, af_bass_idx, af_key_idx, af_root_idx, af_best>>
    /\ UNCHANGED not_af_vars

\* hpcp = self._normalize_hpcp(hpcp)
AFNormalize ==
    /\ af_pc = "normalize"
    /\ af_norm' = normalize_hpcp(af_hpcp)
    /\ af_pc' = "energy"
    /\ UNCHANGED <<af_hpcp, af_key, af_mode, af_bass_idx, af_key_idx, af_root_idx, af_best, af_result>>
    /\ UNCHANGED not_af_vars

\* the energy check, then bass detection, key parsing and the loop's initialisation
AFEnergy ==
    /\ af_pc = "energy"
    /\ IF BelowPresence(af_norm)
       THEN /\ af_pc' = "returned"
            /\ af_result' = NoResult
            /\ UNCHANGED <<af_bass_idx, af_key_idx, af_root_idx, af_best>>
       ELSE /\ af_bass_idx' = detect_bass(af_norm)
            /\ af_key_idx' = parse_key(af_key)
            /\ af_root_idx' = 0
            /\ af_best' = NoBest
            /\ af_pc' = "roots"
            /\ UNCHANGED af_result
    /\ UNCHANGED <<af_hpcp, af_key, af_mode, af_norm>>
    /\ UNCHANGED not_af_vars

\* one iteration of: for root_idx in range(12)
AFTryRoot ==
    /\ af_pc = "roots"
    /\ af_root_idx < 12
    /\ af_best' = TryRoot(af_best, af_norm, af_bass_idx, af_key_idx, af_mode, af_root_idx)
    /\ af_root_idx' = af_root_idx + 1
    /\ UNCHANGED <<af_pc, af_hpcp, af_key, af_mode, af_norm, af_bass_idx, af_key_idx, af_result>>
    /\ UNCHANGED not_af_vars

\* return best_result
AFReturn ==
    /\ af_pc = "roots"
    /\ af_root_idx = 12
    /\ af_result' = af_best.result
    /\ af_pc' = "returned"
    /\ UNCHANGED <<af_hpcp, af_key, af_mode, af_norm, af_bass_idx, af_key_idx, af_root_idx, af_best>>
    /\ UNCHANGED not_af_vars

AFNext == AFCheckLength \/ AFNormalize \/ AFEnergy \/ AFTryRoot \/ AFReturn

SpecFrame == AFInit /\ [][AFNext]_vars

(***************************************************************************)
(* Inputs of analyze_progression: frame sequences built from runs of a few *)
(* frames, with a frame duration of 0.1 s.                                 *)
(***************************************************************************)
MaxRuns == 3
LongRun == 10
RunLengths == {2, 5}

FrameC == Voicing(MajorRootPos, 0, FullGain)        \* C major, symbol C
FrameG7 == Voicing(Dom7Full, 7, FullGain)           \* G dominant seventh, G7
FrameDyadStrong == Voicing(TritoneDyad(5), 0, FullGain)   \* D7/C, confidence 0.878
FrameDyadWeak == Voicing(TritoneDyad(3), 0, FullGain)     \* D7/C, confidence 0.778
FrameSilent == Voicing(Silence, 0, FullGain)        \* no chord
FrameShort == SubSeq(FrameC, 1, 11)                 \* 11 bins: malformed

FrameAlphabet == {FrameC, FrameG7, FrameDyadStrong, FrameDyadWeak, FrameSilent, FrameShort}

Repeat(x, n) == [k \in 1..n |-> x]

\* the frames of a sequence of runs <<frame, count>>
RECURSIVE Expand(_)
Expand(runs) ==
    IF runs = <<>> THEN <<>>
    ELSE Repeat(Head(runs)[1], Head(runs)[2]) \o Expand(Tail(runs))

FrameSequences ==
       { Expand(rs) : rs \in UNION { [1..n -> FrameAlphabet \X RunLengths] : n \in 0..MaxRuns } }
  \cup { Repeat(a, LongRun) \o Repeat(b, LongRun) : a, b \in FrameAlphabet }
  \cup { Repeat(FrameSilent, 2) \o Repeat(a, 7) \o Repeat(b, 5) : a, b \in FrameAlphabet }

\* (hop_size, sample_rate, min_duration, key, mode)
ProgressionSettings ==
    { <<4410, 44100, FDivInt(1, 2), NoName, None>>,
      <<4410, 44100, FDivInt(3, 10), <<"C">>, "major">> }

\* analyze_frame on every frame of the alphabet under each context, as the
\* set of <<hpcp, key, mode, outcome>>, and the outcome of one call
FrameAnalyses ==
    { <<f, st[4], st[5], analyze_frame(f, st[4], st[5])>> :
        f \in FrameAlphabet, st \in ProgressionSettings }

FrameAnalysis(hpcp, key, mode) ==
    (CHOOSE t \in FrameAnalyses : t[1] = hpcp /\ t[2] = key /\ t[3] = mode)[4]

AFIdle ==
    /\ af_pc = "idle"
    /\ af_hpcp = <<>> /\ af_key = NoName /\ af_mode = None
    /\ af_norm = [num |-> <<>>, den |-> 1]
    /\ af_bass_idx = NoIndex
    /\ af_key_idx = NoIndex
    /\ af_root_idx = NoIndex
    /\ af_best = NoBest
    /\ af_result = NoResult

APInit ==
    /\ AFIdle /\ CMIdle /\ RCIdle /\ TCIdle /\ TDIdle /\ DCIdle /\ YDIdle
    /\ hpcps \in FrameSequences
    /\ \E st \in ProgressionSettings :
          /\ hop_size = st[1] /\ sample_rate = st[2] /\ min_duration = st[3]
          /\ ap_key = st[4] /\ ap_mode = st[5]
    /\ ap_pc = "loop"
    /\ ap_i = 0
    /\ progression = <<>>
    /\ current_chord = NoName
    /\ chord_start_time = FZero
    /\ chord_start_idx = 0
    /\ chord_results = <<>>

(***************************************************************************)
(* analyze_progression                                                     *)
(***************************************************************************)
\* a bug that takes the result of the first frame of the run
MostConfident_First(results) == results[1]

\* max(chord_results, key = lambda r: r.confidence): the first of the maxima
MostConfident(results) ==
    results[CHOOSE k \in DOMAIN results :
        /\ \A j \in DOMAIN results : ~FracLess(results[k].confidence, results[j].confidence)
        /\ \A j \in 1..(k - 1) : FracLess(results[j].confidence, results[k].confidence)]

\* frame_duration = hop_size / sample_rate
frame_duration(hop, rate) == FDivInt(hop, rate)

\* a bug that counts the frame that ended the run into the run
RunDuration_Inclusive(end_idx, start_idx, hop, rate) ==
    FMulInt(end_idx - start_idx + 1, frame_duration(hop, rate))

\* duration = (end_idx - chord_start_idx) * frame_duration
RunDuration(end_idx, start_idx, hop, rate) ==
    FMulInt(end_idx - start_idx, frame_duration(hop, rate))

\* a bug that keeps only the runs longer than the minimum
LongEnough_Strict(duration, minimum) == FLess(minimum, duration)

\* duration >= min_duration
LongEnough(duration, minimum) == FLeq(minimum, duration)

\* the "save previous chord" block: the progression after the run that ends
\* before frame end_idx has been closed
CloseRun(prog, cur, results, start_time, start_idx, end_idx, hop, rate, minimum) ==
    IF cur # NoName /\ results # <<>>
    THEN LET duration == RunDuration(end_idx, start_idx, hop, rate)
         IN  IF LongEnough(duration, minimum)
             THEN Append(prog, to_dict(MostConfident(results))
                                 @@ [startTime |-> start_time, duration |-> duration])
             ELSE prog
    ELSE prog

\* a bug that lets a frame without a chord pass without closing the run
SignatureChanged_ChordsOnly(chord_sig, current) == chord_sig # NoName /\ chord_sig # current

\* if chord_sig != current_chord, where chord_sig is None for a frame
\* without a chord
SignatureChanged(chord_sig, current) == chord_sig # current

\* one iteration of: for i, hpcp in enumerate(hpcps)
APFrame ==
    /\ ap_pc = "loop"
    /\ ap_i < Len(hpcps)
    /\ LET result == FrameAnalysis(hpcps[ap_i + 1], ap_key, ap_mode)
           chord_sig == IF result = NoResult THEN NoName ELSE to_symbol(result)
       IN  IF result = ValueError
           THEN \* the exception leaves analyze_progression: nothing is returned
                /\ ap_pc' = "raised"
                /\ UNCHANGED <<ap_i, current_chord, chord_start_time, chord_start_idx,
                               chord_results, progression>>
           ELSE /\ ap_pc' = "loop"
                /\ ap_i' = ap_i + 1
                /\ IF SignatureChanged(chord_sig, current_chord)
                   THEN /\ progression' =
                              CloseRun(progression, current_chord, chord_results,
                                       chord_start_time, chord_start_idx, ap_i,
                                       hop_size, sample_rate, min_duration)
                        /\ current_chord' = chord_sig
                        /\ chord_start_time' = FMulInt(ap_i, frame_duration(hop_size, sample_rate))
                        /\ chord_start_idx' = ap_i
                        /\ chord_results' = IF result # NoResult THEN <<result>> ELSE <<>>
                   ELSE /\ chord_results' = IF result # NoResult
                                            THEN Append(chord_results, result)
                                            ELSE chord_results
                        /\ UNCHANGED <<progression, current_chord, chord_start_time,
                                       chord_start_idx>>
    /\ UNCHANGED <<hpcps, hop_size, sample_rate, min_duration, ap_key, ap_mode>>
    /\ UNCHANGED not_ap_vars

\* the "add final chord" block and return progression
APFinish ==
    /\ ap_pc = "loop"
    /\ ap_i = Len(hpcps)
    /\ progression' =
          CloseRun(progression, current_chord, chord_results, chord_start_time,
                   chord_start_idx, Len(hpcps), hop_size, sample_rate, min_duration)
    /\ ap_pc' = "returned"
    /\ UNCHANGED <<hpcps, hop_size, sample_rate, min_duration, ap_key, ap_mode, ap_i,
                   current_chord, chord_start_time, chord_start_idx, chord_results>>
    /\ UNCHANGED not_ap_vars

APNext == APFrame \/ APFinish

SpecProgression == APInit /\ [][APNext]_vars


(***************************************************************************)
(* Two calls of _correlation_match: on a vector rotated up by cm_shift     *)
(* semitones with the root cm_root, and on the vector itself with the root *)
(* cm_root - cm_shift.                                                     *)
(***************************************************************************)
\* a major triad whose third is at half the presence threshold, and at the
\* threshold itself
FaintThird(x) == Shape({<<0, 10>>, <<4, x>>, <<7, 9>>})
FaintShapes == { FaintThird(x) : x \in {1, 2} }

\* every bin at full level but the bins of weak, which are at the presence
\* threshold: a crowded vector with a faint chord in it
Crowded(weak) == [i \in 1..12 |-> IF (i - 1) \in weak THEN 2 ELSE FullLevel]
CrowdedShapes == { Crowded({0, 3, 7}), Crowded({0, 3, 4, 7}) }

MatchShapes ==
    TestShapes \cup ShellShapes \cup TritoneShapes \cup FaintShapes \cup CrowdedShapes

CMInit ==
    /\ AFIdle /\ APIdle /\ RCIdle /\ TCIdle /\ TDIdle /\ DCIdle /\ YDIdle
    /\ cm_pc = "start"
    /\ \E sh \in MatchShapes : cm_hpcp = normalize_hpcp(Voicing(sh, 0, FullGain))
    /\ cm_shift \in 0..11
    /\ cm_root \in 0..11
    /\ cm_direct = <<>> /\ cm_shifted = <<>>

\* self._correlation_match(np.roll(hpcp, shift), root)
CMRotatedVector ==
    /\ cm_pc = "start"
    /\ cm_direct' = correlation_match([num |-> Voicing(cm_hpcp.num, cm_shift, 1),
                                       den |-> cm_hpcp.den], cm_root)
    /\ cm_pc' = "rotated"
    /\ UNCHANGED <<cm_hpcp, cm_shift, cm_root, cm_shifted>>
    /\ UNCHANGED not_cm_vars

\* self._correlation_match(hpcp, (root - shift) % 12)
CMRotatedRoot ==
    /\ cm_pc = "rotated"
    /\ cm_shifted' = correlation_match(cm_hpcp, (cm_root - cm_shift) % 12)
    /\ cm_pc' = "done"
    /\ UNCHANGED <<cm_hpcp, cm_shift, cm_root, cm_direct>>
    /\ UNCHANGED not_cm_vars

CMNext == CMRotatedVector \/ CMRotatedRoot

SpecMatch == CMInit /\ [][CMNext]_vars

(***************************************************************************)
(* The rotation correction run twice: _find_hpcp_rotation on the audio,    *)
(* the rotation of the frames as in extract_chords, and                    *)
(* _find_hpcp_rotation on the rotated frames.                              *)
(***************************************************************************)
RotNotes == 2
RotLevels == {1, 3}

\* the major and minor triads on every pitch class, at three balances of the
\* root, the third and the fifth
RotTriads ==
    { Shape({<<r, b[1]>>, <<(r + third) % 12, b[2]>>, <<(r + 7) % 12, b[3]>>}) :
        r \in 0..11, third \in {3, 4}, b \in {<<3, 3, 3>>, <<3, 2, 1>>, <<1, 2, 3>>} }

\* the averaged vectors with at most RotNotes sounding bins, bin 0 among
\* them, each at a level of RotLevels, the triads, and the silent vector
\* a C major triad (energy 10, or 20) with the triad a semitone above it
\* sounding as well: as strong, 5% stronger, 10% stronger, 20% stronger
MarginVectors ==
    { Shape({<<0, 4>>, <<4, 3>>, <<7, 3>>, <<1, 4>>, <<5, 4>>, <<8, x>>}) : x \in {2, 3, 4} }
    \cup { Shape({<<0, 8>>, <<4, 6>>, <<7, 6>>, <<1, 8>>, <<5, 7>>, <<8, 6>>}) }

RotVectors ==
    { [i \in 1..12 |-> 0] } \cup RotTriads \cup MarginVectors \cup
    UNION { { [i \in 1..12 |-> IF i \in S THEN f[i] ELSE 0] : f \in [S -> RotLevels] } :
            S \in {T \in SUBSET (1..12) : 1 \in T /\ Cardinality(T) <= RotNotes} }

\* "H" is not a key of pitch_class_map
RotKeys == {"C", "Eb", "A", "H"}
RotModes == {"major", "minor"}

RCInit ==
    /\ AFIdle /\ APIdle /\ CMIdle /\ TCIdle /\ TDIdle /\ DCIdle /\ YDIdle
    /\ rc_pc = "start"
    /\ rc_avg \in RotVectors \cup {NoFrames}
    /\ rc_key \in RotKeys
    /\ rc_mode \in RotModes
    /\ rc_promotion \in Promotions
    /\ rc_first = 0 /\ rc_second = 0
    /\ rc_rotated = NoFrames

\* hpcp_rotation = self._find_hpcp_rotation(audio, key, mode), and the frames
\* rolled by it
RCFindAndRotate ==
    /\ rc_pc = "start"
    /\ LET r == find_hpcp_rotation(rc_avg, rc_key, rc_mode, rc_promotion)
       IN  /\ rc_first' = r
           /\ rc_rotated' = RotatedAverage(rc_avg, r)
    /\ rc_pc' = "rotated"
    /\ UNCHANGED <<rc_avg, rc_key, rc_mode, rc_promotion, rc_second>>
    /\ UNCHANGED not_rc_vars

\* self._find_hpcp_rotation on the rotated frames, same key and mode
RCFindAgain ==
    /\ rc_pc = "rotated"
    /\ rc_second' = find_hpcp_rotation(rc_rotated, rc_key, rc_mode, rc_promotion)
    /\ rc_pc' = "done"
    /\ UNCHANGED <<rc_avg, rc_key, rc_mode, rc_promotion, rc_first, rc_rotated>>
    /\ UNCHANGED not_rc_vars

RCNext == RCFindAndRotate \/ RCFindAgain

SpecRotation == RCInit /\ [][RCNext]_vars

(***************************************************************************)
(* The tempo octave correction run twice on the same beats and audio.      *)
(***************************************************************************)
\* the tempo range of RhythmExtractor2013 (its defaults), in BPM
MinTempo == 40
MaxTempo == 208

\* ChordExtractor.__init__: self.sample_rate
ExtractorSampleRate == 44100

TempoBeats == {0, 30, 80, 120, 200}
TempoSeconds == {0, 30, 60}

TCInit ==
    /\ AFIdle /\ APIdle /\ CMIdle /\ RCIdle /\ TDIdle /\ DCIdle /\ YDIdle
    /\ tc_pc = "start"
    /\ \E n \in MinTempo..MaxTempo : tc_bpm = FInt(n)
    /\ tc_beats \in TempoBeats
    /\ \E sec \in TempoSeconds : tc_samples = sec * ExtractorSampleRate
    /\ tc_once = FZero /\ tc_twice = FZero

\* extract_chords, lines 77-85, on the detected tempo
TCCorrect ==
    /\ tc_pc = "start"
    /\ tc_once' = corrected_tempo(tc_bpm, tc_beats, tc_samples, ExtractorSampleRate)
    /\ tc_pc' = "corrected"
    /\ UNCHANGED <<tc_bpm, tc_beats, tc_samples, tc_twice>>
    /\ UNCHANGED not_tc_vars

\* the same lines on the corrected tempo
TCCorrectAgain ==
    /\ tc_pc = "corrected"
    /\ tc_twice' = corrected_tempo(tc_once, tc_beats, tc_samples, ExtractorSampleRate)
    /\ tc_pc' = "done"
    /\ UNCHANGED <<tc_bpm, tc_beats, tc_samples, tc_once>>
    /\ UNCHANGED not_tc_vars

TCNext == TCCorrect \/ TCCorrectAgain

SpecTempo == TCInit /\ [][TCNext]_vars

(***************************************************************************)
(* ChordResult.to_dict on two results that matched the same template of    *)
(* CHORD_TEMPLATES, with different roots, basses and confidences.          *)
(***************************************************************************)
DictRoots == {<<"C">>, <<"F", "#">>}
DictBasses == {NoName, <<"E">>}
DictConfidences == {Frac(1, 2), Frac(1, 1)}

\* ChordResult(root, quality = template.name, bass, confidence, all_intervals)
\* as analyze_frame constructs it
ResultsOf(template) ==
    { [kind |-> "ChordResult", root |-> r, quality |-> template.name, bass |-> b,
       confidence |-> c, all_intervals |-> Range(template.intervals)] :
        r \in DictRoots, b \in DictBasses, c \in DictConfidences }

TDInit ==
    /\ AFIdle /\ APIdle /\ CMIdle /\ RCIdle /\ TCIdle /\ DCIdle /\ YDIdle
    /\ td_pc = "start"
    /\ td_template \in Range(CHORD_TEMPLATES)
    /\ td_a \in ResultsOf(td_template)
    /\ td_b \in ResultsOf(td_template)
    /\ td_da = NoResult /\ td_db = NoResult

TDFirst ==
    /\ td_pc = "start"
    /\ td_da' = to_dict(td_a)
    /\ td_pc' = "first"
    /\ UNCHANGED <<td_template, td_a, td_b, td_db>>
    /\ UNCHANGED not_td_vars

TDSecond ==
    /\ td_pc = "first"
    /\ td_db' = to_dict(td_b)
    /\ td_pc' = "done"
    /\ UNCHANGED <<td_template, td_a, td_b, td_da>>
    /\ UNCHANGED not_td_vars

TDNext == TDFirst \/ TDSecond

SpecCatalog == TDInit /\ [][TDNext]_vars

(***************************************************************************)
(* One call of ProgressionDeconstructor.deconstruct.                       *)
(***************************************************************************)
MaxChords == 2

\* the extension keys of the inputs: one of each layer, and the "7" that
\* parse_chord_label and the test script write
DeconstructKeys == {"dom7", "sus2", "add6", "b5", "7"}

\* C major chords with any of the keys set, and A minor chords without
\* extensions, with an extension that is set to False, and without the field
DeconstructChords ==
    { [root |-> <<"C">>, quality |-> "major", extensions |-> [k \in S |-> TRUE]] :
        S \in SUBSET DeconstructKeys }
    \cup { [root |-> <<"A">>, quality |-> "minor", extensions |-> EmptyMap],
           [root |-> <<"A">>, quality |-> "minor", extensions |-> [k \in {"min7"} |-> FALSE]],
           [root |-> <<"A">>, quality |-> "minor"] }

DCInit ==
    /\ AFIdle /\ APIdle /\ CMIdle /\ RCIdle /\ TCIdle /\ TDIdle /\ YDIdle
    /\ dc_pc = "start"
    /\ dc_chords \in UNION { [1..n -> DeconstructChords] : n \in 0..MaxChords }
    /\ dc_objects = <<>> /\ dc_skeleton = <<>>
    /\ dc_layers = NoLayers
    /\ dc_steps = <<>> /\ dc_result = <<>>

\* chord_objects = [Chord(...) for c in chords]
DCObjects ==
    /\ dc_pc = "start"
    /\ dc_objects' = chord_objects(dc_chords)
    /\ dc_pc' = "objects"
    /\ UNCHANGED <<dc_chords, dc_skeleton, dc_layers, dc_steps, dc_result>>
    /\ UNCHANGED not_dc_vars

\* skeleton = self.extract_skeleton(chord_objects)
DCSkeleton ==
    /\ dc_pc = "objects"
    /\ dc_skeleton' = extract_skeleton(dc_objects)
    /\ dc_pc' = "skeleton"
    /\ UNCHANGED <<dc_chords, dc_objects, dc_layers, dc_steps, dc_result>>
    /\ UNCHANGED not_dc_vars

\* layers = self.identify_layers(chord_objects)
DCLayers ==
    /\ dc_pc = "skeleton"
    /\ dc_layers' = identify_layers(dc_objects)
    /\ dc_pc' = "layers"
    /\ UNCHANGED <<dc_chords, dc_objects, dc_skeleton, dc_steps, dc_result>>
    /\ UNCHANGED not_dc_vars

\* progression_steps = self.create_steps(skeleton, layers, chord_objects, key, mode)
DCSteps ==
    /\ dc_pc = "layers"
    /\ dc_steps' = create_steps(dc_skeleton, dc_layers, dc_objects)
    /\ dc_pc' = "explain"
    /\ UNCHANGED <<dc_chords, dc_objects, dc_skeleton, dc_layers, dc_result>>
    /\ UNCHANGED not_dc_vars

\* one iteration of the loop over enumerate(progression_steps)
DCExplain ==
    /\ dc_pc = "explain"
    /\ Len(dc_result) < Len(dc_steps)
    /\ dc_result' = Append(dc_result, result_step(Len(dc_result), dc_steps[Len(dc_result) + 1]))
    /\ UNCHANGED <<dc_pc, dc_chords, dc_objects, dc_skeleton, dc_layers, dc_steps>>
    /\ UNCHANGED not_dc_vars

\* return result_steps
DCReturn ==
    /\ dc_pc = "explain"
    /\ Len(dc_result) = Len(dc_steps)
    /\ dc_pc' = "returned"
    /\ UNCHANGED <<dc_chords, dc_objects, dc_skeleton, dc_layers, dc_steps, dc_result>>
    /\ UNCHANGED not_dc_vars

DCNext == DCObjects \/ DCSkeleton \/ DCLayers \/ DCSteps \/ DCExplain \/ DCReturn

SpecDeconstruct == DCInit /\ [][DCNext]_vars

(***************************************************************************)
(* /api/analyze on a YouTube request: the handler analyze_audio with       *)
(* download_audio on the event loop, and the thread that asyncio.to_thread *)
(* starts for _download_audio_sync.  wait_for gives up waiting after the   *)
(* timeout; the thread runs on.  yt-dlp downloads to <id> and its          *)
(* FFmpegExtractAudio postprocessor writes <id>.wav and removes <id>.      *)
(* cleanup tests and removes <id>.wav, then <id>: two steps of the thread  *)
(* that calls it.                                                          *)
(***************************************************************************)
\* the two paths of a video id in output_dir.  __init__ makes the directory
\* with exist_ok=True, so it may hold the files of an earlier request.
TempFiles == {"wav", "base"}

\* cleanup: if os.path.exists(filepath): os.remove(filepath)
cleanup_wav(files) == files \ {"wav"}

\* cleanup: if os.path.exists(base_path): os.remove(base_path)
cleanup_base(files) == files \ {"base"}

\* the except clauses of _download_audio_sync
DownloadErrors == {"BrokenPipeError", "DownloadError", "Exception"}

YDInit ==
    /\ AFIdle /\ APIdle /\ CMIdle /\ RCIdle /\ TCIdle /\ TDIdle /\ DCIdle
    /\ yd_pc = "start"
    /\ yd_worker = "unstarted"
    /\ yd_files \in SUBSET TempFiles
    /\ yd_error = None
    /\ yd_timeout = FALSE
    /\ yd_response = None

\* await asyncio.wait_for(asyncio.to_thread(self._download_audio_sync, video_id), ...)
YDRequest ==
    /\ yd_pc = "start"
    /\ yd_pc' = "awaiting"
    /\ yd_worker' = "fetch"
    /\ UNCHANGED <<yd_files, yd_error, yd_timeout, yd_response>>
    /\ UNCHANGED not_yd_vars

\* the thread: ydl.extract_info(url, download=True), the download to <id>
YDFetch ==
    /\ yd_worker = "fetch"
    /\ yd_files' = yd_files \cup {"base"}
    /\ yd_worker' = "convert"
    /\ UNCHANGED <<yd_pc, yd_error, yd_timeout, yd_response>>
    /\ UNCHANGED not_yd_vars

\* the thread: the postprocessor writes <id>.wav and removes <id>
YDConvert ==
    /\ yd_worker = "convert"
    /\ yd_files' = (yd_files \ {"base"}) \cup {"wav"}
    /\ yd_worker' = "return"
    /\ UNCHANGED <<yd_pc, yd_error, yd_timeout, yd_response>>
    /\ UNCHANGED not_yd_vars

\* the thread: return {"filepath": output_path, ...}
YDReturn ==
    /\ yd_worker = "return"
    /\ yd_worker' = "returned"
    /\ UNCHANGED <<yd_pc, yd_files, yd_error, yd_timeout, yd_response>>
    /\ UNCHANGED not_yd_vars

\* the thread: the download or the conversion raises; the except clause logs
\* and calls cleanup
YDRaise ==
    /\ yd_worker \in {"fetch", "convert"}
    /\ yd_error' \in DownloadErrors
    /\ yd_worker' = "except_wav"
    /\ UNCHANGED <<yd_pc, yd_files, yd_timeout, yd_response>>
    /\ UNCHANGED not_yd_vars

YDExceptCleanupWav ==
    /\ yd_worker = "except_wav"
    /\ yd_files' = cleanup_wav(yd_files)
    /\ yd_worker' = "except_base"
    /\ UNCHANGED <<yd_pc, yd_error, yd_timeout, yd_response>>
    /\ UNCHANGED not_yd_vars

\* the second half of cleanup, then raise YouTubeDownloaderError
YDExceptCleanupBase ==
    /\ yd_worker = "except_base"
    /\ yd_files' = cleanup_base(yd_files)
    /\ yd_worker' = "raised"
    /\ UNCHANGED <<yd_pc, yd_error, yd_timeout, yd_response>>
    /\ UNCHANGED not_yd_vars

\* download_audio returns the result of the thread; analyze_audio goes on to
\* extract_chords
YDDownloaded ==
    /\ yd_pc = "awaiting"
    /\ yd_worker = "returned"
    /\ yd_pc' = "extract"
    /\ UNCHANGED <<yd_worker, yd_files, yd_error, yd_timeout, yd_response>>
    /\ UNCHANGED not_yd_vars

\* download_audio re-raises YouTubeDownloaderError; analyze_audio answers
YDDownloadFailed ==
    /\ yd_pc = "awaiting"
    /\ yd_worker = "raised"
    /\ yd_response' = "YOUTUBE_DOWNLOAD_FAILED"
    /\ yd_pc' = "responded"
    /\ UNCHANGED <<yd_worker, yd_files, yd_error, yd_timeout>>
    /\ UNCHANGED not_yd_vars

\* wait_for times out while the thread is still running:
\* except asyncio.TimeoutError: self.cleanup(video_id)
YDTimeout ==
    /\ yd_pc = "awaiting"
    /\ yd_worker \notin {"returned", "raised"}
    /\ yd_pc' = "timeout_wav"
    /\ UNCHANGED <<yd_worker, yd_files, yd_error, yd_timeout, yd_response>>
    /\ UNCHANGED not_yd_vars

YDTimeoutCleanupWav ==
    /\ yd_pc = "timeout_wav"
    /\ yd_files' = cleanup_wav(yd_files)
    /\ yd_pc' = "timeout_base"
    /\ UNCHANGED <<yd_worker, yd_error, yd_timeout, yd_response>>
    /\ UNCHANGED not_yd_vars

\* the second half of cleanup, then raise; analyze_audio answers
\* DOWNLOAD_TIMEOUT
YDTimeoutCleanupBase ==
    /\ yd_pc = "timeout_base"
    /\ yd_files' = cleanup_base(yd_files)
    /\ yd_timeout' = TRUE
    /\ yd_response' = "DOWNLOAD_TIMEOUT"
    /\ yd_pc' = "responded"
    /\ UNCHANGED <<yd_worker, yd_error>>
    /\ UNCHANGED not_yd_vars

\* extract_chords and the conversion of its chords succeed:
\* youtube_downloader.cleanup(body.videoId)
YDExtracted ==
    /\ yd_pc = "extract"
    /\ yd_pc' = "success_wav"
    /\ UNCHANGED <<yd_worker, yd_files, yd_error, yd_timeout, yd_response>>
    /\ UNCHANGED not_yd_vars

YDSuccessCleanupWav ==
    /\ yd_pc = "success_wav"
    /\ yd_files' = cleanup_wav(yd_files)
    /\ yd_pc' = "success_base"
    /\ UNCHANGED <<yd_worker, yd_error, yd_timeout, yd_response>>
    /\ UNCHANGED not_yd_vars

\* the second half of cleanup, then return AnalyzeResponse(success=True, ...)
YDSuccessCleanupBase ==
    /\ yd_pc = "success_base"
    /\ yd_files' = cleanup_base(yd_files)
    /\ yd_response' = "success"
    /\ yd_pc' = "responded"
    /\ UNCHANGED <<yd_worker, yd_error, yd_timeout>>
    /\ UNCHANGED not_yd_vars

\* extract_chords (or the conversion of its chords) raises:
\* except Exception: return AnalyzeResponse(success=False, ANALYSIS_FAILED)
YDExtractRaised ==
    /\ yd_pc = "extract"
    /\ yd_response' = "ANALYSIS_FAILED"
    /\ yd_pc' = "responded"
    /\ UNCHANGED <<yd_worker, yd_files, yd_error, yd_timeout>>
    /\ UNCHANGED not_yd_vars

YDNext ==
    \/ YDRequest \/ YDFetch \/ YDConvert \/ YDReturn
    \/ YDRaise \/ YDExceptCleanupWav \/ YDExceptCleanupBase
    \/ YDDownloaded \/ YDDownloadFailed
    \/ YDTimeout \/ YDTimeoutCleanupWav \/ YDTimeoutCleanupBase
    \/ YDExtracted \/ YDSuccessCleanupWav \/ YDSuccessCleanupBase \/ YDExtractRaised

SpecDownload == YDInit /\ [][YDNext]_vars


(***************************************************************************)
(* Properties of analyze_frame                                             *)
(***************************************************************************)
Returned == af_pc = "returned"
IsChord(r) == r.kind = "ChordResult"
PitchName(i) == PITCH_CLASSES[(i % 12) + 1]
NoContext == af_key = NoName /\ af_mode = None

\* the peak of the input vector, as given, is below the presence threshold
PeakBelowThreshold(hpcp) == MaxSeq(hpcp) * PresenceDen < PresenceNum * BinUnit

\* C1: a vector whose length is not 12 is rejected with ValueError at the first
\* statement: the call never normalizes, detects a bass, tries a root or
\* returns, and once it has moved it has raised.
C1_WrongLengthRaisesFirst ==
    Len(af_hpcp) # 12 =>
        /\ af_pc \in {"start", "raised"}
        /\ af_pc = "raised" => af_result = ValueError
        /\ af_norm.num = <<>>
        /\ af_bass_idx = NoIndex
        /\ af_root_idx = NoIndex
        /\ af_best = NoBest

C1_Witness == af_pc = "raised" /\ Len(af_hpcp) = 13 /\ af_result = ValueError

\* C2: a 12-vector whose peak bin is below the presence threshold, a non-zero
\* low-energy one included, is analyzed as no chord.
C2_LowEnergyIsNoChord ==
    (Returned /\ Len(af_hpcp) = 12 /\ PeakBelowThreshold(af_hpcp)) => af_result = NoResult

\* C3: a returned chord carries a bass exactly when the strongest bin (the first
\* of them, as the bass detection takes it) is not the root; the bass is then
\* that bin's name, and never the root's.
C3_BassOnlyWhenNotRoot ==
    (Returned /\ IsChord(af_result)) =>
        LET strongest == CHOOSE i \in 0..11 :
                /\ af_hpcp[i + 1] = MaxSeq(af_hpcp)
                /\ \A j \in 0..(i - 1) : af_hpcp[j + 1] < af_hpcp[i + 1]
        IN  /\ af_result.bass = NoName <=> PitchName(strongest) = af_result.root
            /\ af_result.bass # NoName => af_result.bass = PitchName(strongest)
            /\ af_result.bass # af_result.root

C3_Witness ==
    /\ Returned /\ IsChord(af_result)
    /\ af_hpcp = Voicing(Dom7Full, 7, FullGain)
    /\ af_result.bass = NoName /\ af_result.root = <<"G">>

\* C4: root, major third and fifth at full strength and nothing else, with no
\* key context, is the major chord on that root with confidence above 0.6.
C4_FullTriadIsMajor ==
    (Returned /\ NoContext) =>
        \A r \in 0..11 :
            af_hpcp = Voicing(MajorFull, r, FullGain) =>
                /\ IsChord(af_result)
                /\ af_result.root = PitchName(r)
                /\ af_result.quality = "major"
                /\ FracLess(Frac(6, 10), af_result.confidence)

\* the seventh chord a shell shape spells
ShellQuality(third, seventh) ==
    CASE third = 4 /\ seventh = 11 -> "maj7"
      [] third = 4 /\ seventh = 10 -> "dom7"
      [] third = 3 /\ seventh = 10 -> "min7"

\* every shell voicing of the model with what it spells
ShellCases ==
    { [hpcp |-> Voicing(ShellSeventh(ts[1], ts[2], a, b), r, FullGain),
       root |-> PitchName(r), quality |-> ShellQuality(ts[1], ts[2]), seventh |-> b] :
        r \in 0..11, ts \in {<<4, 11>>, <<4, 10>>, <<3, 10>>},
        a \in WeakLevels, b \in WeakLevels }

\* the sevenths at half the root's strength or more
HalfLevel == 5 * 1

TritoneCases ==
    { [hpcp |-> Voicing(TritoneDyad(x), p, g),
       notes |-> {PitchName(p), PitchName(p + 6)}] :
        p \in 0..11, x \in WeakLevels \cup {FullLevel}, g \in Gains }

\* C6: two bins a tritone apart and nothing else give no chord or a diminished
\* chord (dim, dim7, m7b5) rooted on one of the two.
C6_TritoneIsDiminishedOrNone ==
    (Returned /\ NoContext) =>
        \A c \in TritoneCases :
            af_hpcp = c.hpcp =>
                \/ af_result = NoResult
                \/ /\ IsChord(af_result)
                   /\ af_result.quality \in {"dim", "dim7", "m7b5"}
                   /\ af_result.root \in c.notes

\* C7: with no key context an inverted major triad is the major chord on its
\* true root, the strongest bin reported as the bass.
C7_InversionKeepsRoot ==
    (Returned /\ NoContext) =>
        \A r \in 0..11 :
            /\ af_hpcp = Voicing(FirstInversion, r, FullGain) =>
                  /\ IsChord(af_result)
                  /\ af_result.root = PitchName(r) /\ af_result.quality = "major"
                  /\ af_result.bass = PitchName(r + 4)
            /\ af_hpcp = Voicing(SecondInversion, r, FullGain) =>
                  /\ IsChord(af_result)
                  /\ af_result.root = PitchName(r) /\ af_result.quality = "major"
                  /\ af_result.bass = PitchName(r + 7)

\* C8: first-inversion C major (E 1.0, C 0.7, G 0.8) with key C, mode major is
\* C major over E, symbol C/E.
C8_KeyContextSelectsTonic ==
    (Returned /\ af_key = <<"C">> /\ af_mode = "major"
        /\ af_hpcp = Voicing(FirstInversion, 0, FullGain)) =>
        /\ IsChord(af_result)
        /\ to_symbol(af_result) = <<"C", "/", "E">>

(***************************************************************************)
(* Properties of analyze_progression                                       *)
(***************************************************************************)
Segmented == ap_pc = "returned"

\* n * frame_duration, as the code computes it
FrameTime(n) == FMulInt(n, frame_duration(hop_size, sample_rate))

\* what frame k (from 1) analyzes to, and its label: the chord symbol, or
\* NoName for a frame without a chord
FrameResult(k) == FrameAnalysis(hpcps[k], ap_key, ap_mode)
FrameLabel(k) == IF IsChord(FrameResult(k)) THEN to_symbol(FrameResult(k)) ELSE NoName

\* segment seg is the chord of the frames first..last, timed as that run
SegmentOfRun(seg, first, last) ==
    /\ seg.symbol = FrameLabel(first)
    /\ seg.root = FrameResult(first).root
    /\ seg.originalQuality = FrameResult(first).quality
    /\ seg.bass = FrameResult(first).bass
    /\ seg.startTime = FrameTime(first - 1)
    /\ seg.duration = FrameTime(last - first + 1)

\* C9: n1 frames of chord A then n2 frames of another chord B, both runs at
\* least min_duration long, give exactly two segments: A from 0 for n1 frames,
\* then B from the end of A for n2 frames.
C9_TwoRunsTwoSegments ==
    Segmented =>
        \A n1 \in 1..(Len(hpcps) - 1) :
            ( /\ \A k \in 1..Len(hpcps) : IsChord(FrameResult(k))
              /\ \A k \in 1..n1 : FrameLabel(k) = FrameLabel(1)
              /\ \A k \in (n1 + 1)..Len(hpcps) : FrameLabel(k) = FrameLabel(n1 + 1)
              /\ FrameLabel(1) # FrameLabel(n1 + 1)
              /\ FLeq(min_duration, FrameTime(n1))
              /\ FLeq(min_duration, FrameTime(Len(hpcps) - n1)) )
            => /\ Len(progression) = 2
               /\ SegmentOfRun(progression[1], 1, n1)
               /\ SegmentOfRun(progression[2], n1 + 1, Len(hpcps))

\* LongRun frames of C major, then LongRun frames of G7, minimum 0.5 s
C9_Witness ==
    /\ Segmented
    /\ hpcps = Repeat(FrameC, LongRun) \o Repeat(FrameG7, LongRun)
    /\ min_duration = FDivInt(1, 2)
    /\ Len(progression) = 2
    /\ progression[1].root = <<"C">> /\ progression[1].originalQuality = "major"
    /\ progression[1].startTime = FZero
    /\ progression[1].duration = FDivInt(LongRun, 10)
    /\ progression[2].root = <<"G">> /\ progression[2].originalQuality = "dom7"
    /\ progression[2].startTime = FDivInt(LongRun, 10)
    /\ progression[2].duration = FDivInt(LongRun, 10)

\* the frames where a run of one label starts, and the last frame of the run
\* that starts at frame first
RunStarts == {k \in 1..Len(hpcps) : k = 1 \/ FrameLabel(k - 1) # FrameLabel(k)}

RunEnd(first) ==
    CHOOSE last \in first..Len(hpcps) :
        /\ (RunStarts \cap (first + 1)..last) = {}
        /\ last = Len(hpcps) \/ (last + 1) \in RunStarts

\* the runs <<first, last>> that become segments: chord runs at least
\* min_duration long
KeptRuns ==
    { fl \in {<<k, RunEnd(k)>> : k \in RunStarts} :
        /\ FrameLabel(fl[1]) # NoName
        /\ FLeq(min_duration, FrameTime(fl[2] - fl[1] + 1)) }

\* C10: the segments are, in order, exactly the chord runs whose duration is at
\* least min_duration, each timed as its own run: a shorter run gives no
\* segment and changes no other segment's start or duration, a run as long as
\* the minimum is kept, and no segment is shorter than the minimum.
C10_ShortRunsDropped ==
    Segmented =>
        LET kept == KeptRuns
        IN  /\ \A fl \in kept :
                  \E j \in DOMAIN progression : SegmentOfRun(progression[j], fl[1], fl[2])
            /\ \A j \in DOMAIN progression :
                  \E fl \in kept : SegmentOfRun(progression[j], fl[1], fl[2])
            /\ \A j \in DOMAIN progression :
                  /\ FLeq(min_duration, progression[j].duration)
                  /\ j > 1 => FLess(progression[j - 1].startTime, progression[j].startTime)

\* 5 frames of C (0.5 s, the minimum), 2 of G7 (0.2 s, dropped), 5 of C
C10_Witness ==
    /\ Segmented
    /\ hpcps = Expand(<<<<FrameC, 5>>, <<FrameG7, 2>>, <<FrameC, 5>>>>)
    /\ min_duration = FDivInt(1, 2)
    /\ Len(progression) = 2
    /\ progression[1].startTime = FZero /\ progression[1].duration = FDivInt(1, 2)
    /\ progression[2].startTime = FMulInt(7, FDivInt(1, 10))
    /\ progression[2].duration = FDivInt(1, 2)
    /\ progression[2].root = <<"C">>

\* C11: the segments come in strictly increasing startTime order, each ends
\* (startTime + duration, as real numbers) no later than the next starts, and
\* the last ends no later than (number of frames) * frame_duration.
C11_SegmentsOrderedDisjoint ==
    Segmented =>
        \A j \in DOMAIN progression :
            /\ j > 1 =>
                  /\ FLess(progression[j - 1].startTime, progression[j].startTime)
                  /\ ExactSumLeq(progression[j - 1].startTime, progression[j - 1].duration,
                                 progression[j].startTime)
            /\ j = Len(progression) =>
                  ExactSumLeq(progression[j].startTime, progression[j].duration,
                              FrameTime(Len(hpcps)))

\* the frame whose analysis a segment reports: the first frame of its run
SegmentFrames(seg) ==
    {k \in 1..Len(hpcps) : IsChord(FrameResult(k)) /\ FrameTime(k - 1) = seg.startTime}

\* the triad family a template name belongs to
MajorFamily == {"major", "maj7", "maj9", "maj11", "maj13", "dom7", "9", "11", "13",
                "add9", "7sus4", "7sus2", "sus4", "sus2", "maj6"}
MinorFamily == {"minor", "min7", "min9", "min11", "min13", "madd9", "m7b5",
                "minmaj7", "min6"}
FamilyOf(name) ==
    CASE name \in MajorFamily -> "major"
      [] name \in MinorFamily -> "minor"
      [] name \in {"dim", "dim7"} -> "diminished"
      [] name \in {"aug", "aug7"} -> "augmented"
      [] OTHER -> name

\* C12 (as claimed): the quality field of a segment is the name of the template
\* its frames matched.
C12_QualityIsTemplateName ==
    Segmented =>
        \A j \in DOMAIN progression :
            \E k \in SegmentFrames(progression[j]) :
                /\ progression[j].root = FrameResult(k).root
                /\ progression[j].quality = FrameResult(k).quality

\* C12 (amended): originalQuality is the name of the matched template, and
\* quality is the triad family of that name.
C12_OriginalQualityIsTemplateName ==
    Segmented =>
        \A j \in DOMAIN progression :
            \E k \in SegmentFrames(progression[j]) :
                /\ progression[j].root = FrameResult(k).root
                /\ progression[j].originalQuality = FrameResult(k).quality
                /\ progression[j].quality = FamilyOf(FrameResult(k).quality)

\* C major then G7: the G7 segment has quality major, originalQuality dom7
C12_Witness ==
    /\ Segmented
    /\ hpcps = Repeat(FrameC, LongRun) \o Repeat(FrameG7, LongRun)
    /\ Len(progression) = 2
    /\ progression[2].root = <<"G">>
    /\ progression[2].quality = "major"
    /\ progression[2].originalQuality = "dom7"
    /\ progression[2].extensions = [k \in {"dom7"} |-> TRUE]

(***************************************************************************)
(* Properties of _correlation_match                                        *)
(***************************************************************************)
\* C13: the ranking (templates and scores) of a vector rotated up by k at root
\* r is the ranking of the vector itself at root (r - k) mod 12.
C13_RotationSymmetry ==
    cm_pc = "done" => cm_direct = cm_shifted

\* C major moved up a fifth and matched at G: major first, as for C at C
C13_Witness ==
    /\ cm_pc = "done"
    /\ cm_hpcp = normalize_hpcp(Voicing(MajorRootPos, 0, FullGain))
    /\ cm_shift = 7 /\ cm_root = 7
    /\ Len(cm_direct) > 1
    /\ cm_direct[1].ct.name = "major"
    /\ cm_shifted[1].ct.name = "major"

\* C14: the rotation correction is idempotent: whatever rotation the first run
\* selects, the run on the frames rotated by it selects rotation 0
C14_RotationIdempotent == rc_pc = "done" => rc_second = 0

\* a first run that did select a rotation, followed by the second run
C14_Witness == rc_pc = "done" /\ rc_first # 0 /\ rc_rotated # rc_avg

\* C15: the tempo octave correction is idempotent: correcting the corrected
\* tempo, with the same beats and audio, leaves it unchanged
C15_TempoIdempotent == tc_pc = "done" => tc_twice = tc_once

(***************************************************************************)
(* Properties of the template catalog and of to_dict                       *)
(***************************************************************************)
ExtensionVocabulary ==
    {"maj7", "min7", "dom7", "dim7", "add9", "add11", "add13", "add6", "sus2",
     "sus4", "b5", "#5", "b9", "#9", "#11", "b13"}

\* C16: for a quality of the catalog, the base quality and the extensions of
\* to_dict are the same for every result of that quality, every extension key
\* is of the closed vocabulary, and the quality is one that to_dict maps.
C16_DictDependsOnQualityOnly ==
    td_pc = "done" =>
        /\ td_da.quality = td_db.quality
        /\ td_da.extensions = td_db.extensions
        /\ DOMAIN td_da.extensions \subseteq ExtensionVocabulary
        /\ DOMAIN td_db.extensions \subseteq ExtensionVocabulary
        /\ td_template.name \in MappedQualities

\* two results of a 13 template that share neither root, bass nor confidence
C16_Witness ==
    /\ td_pc = "done"
    /\ td_template.name = "13"
    /\ td_a.root # td_b.root /\ td_a.bass # td_b.bass
    /\ td_a.confidence # td_b.confidence
    /\ td_da.quality = "major"
    /\ DOMAIN td_db.extensions = {"dom7", "add9", "add11", "add13"}

DisjointIntervals(t) ==
    /\ Range(t.intervals) \cap Range(t.optional) = {}
    /\ Range(t.intervals) \cap Range(t.forbidden) = {}
    /\ Range(t.optional) \cap Range(t.forbidden) = {}
    /\ Range(t.intervals) \cup Range(t.optional) \cup Range(t.forbidden) \subseteq 0..11

\* C17: in every template of the catalog the required, the optional and the
\* forbidden intervals are pairwise disjoint, and all are within 0..11.
C17_TemplateSetsDisjoint ==
    /\ \A k \in DOMAIN CHORD_TEMPLATES : DisjointIntervals(CHORD_TEMPLATES[k])
    /\ td_pc # "idle" => DisjointIntervals(td_template)

\* a result of a template that has intervals of all three kinds
C17_Witness ==
    /\ td_pc = "done"
    /\ td_template = ChordTemplate("maj13", <<0, 4, 11, 9, 2>>, <<7, 5>>, <<3, 10>>, 102)
    /\ td_da.originalQuality = "maj13"

(***************************************************************************)
(* Ties in analyze_frame                                                   *)
(***************************************************************************)
\* for every root from r on, the name and the final score of its first-ranked
\* template (after the bass multiplier and the diatonic bonus) and the number
\* of its matches; no name and score 0 for a root without a match
RECURSIVE RootScores(_)
RootScores(r) ==
    IF r = 12 THEN <<>>
    ELSE LET matches == correlation_match(af_norm, r)
         IN  <<IF matches = <<>> THEN [name |-> None, score |-> 0, count |-> 0]
               ELSE [name |-> matches[1].ct.name,
                     score |-> FinalScore(matches[1], af_norm, af_bass_idx,
                                          af_key_idx, af_mode, r),
                     count |-> Len(matches)]>>
             \o RootScores(r + 1)

\* the roots of maximal final score among those with a positive final score
TopRoots(scores) ==
    {r \in 0..11 : /\ scores[r + 1].score > 0
                   /\ \A q \in 0..11 : scores[q + 1].score <= scores[r + 1].score}

\* C18: the result is a function of the arguments; it names the lowest root
\* among those of maximal final score, with the first-ranked template of that
\* root, and it is None when no root has a match.
C18_TiesByIterationOrder ==
    (Returned /\ af_root_idx = 12) =>
        LET scores == RootScores(0)
            top == TopRoots(scores)
        IN  /\ af_result = analyze_frame(af_hpcp, af_key, af_mode)
            /\ IF top = {} THEN af_result = NoResult
               ELSE LET first == CHOOSE r \in top : \A q \in top : r <= q
                    IN  /\ IsChord(af_result)
                        /\ af_result.root = PitchName(first)
                        /\ af_result.quality = scores[first + 1].name

\* several roots attain the maximal final score, and the reported root has
\* more than one matching template
C18_Witness ==
    /\ Returned /\ af_root_idx = 12 /\ IsChord(af_result)
    /\ LET scores == RootScores(0)
           top == TopRoots(scores)
       IN  /\ Cardinality(top) > 1
           /\ \E r \in top : af_result.root = PitchName(r) /\ scores[r + 1].count > 1

(***************************************************************************)
(* Properties of deconstruct                                               *)
(***************************************************************************)
LayerNames == <<"Add 7ths", "Add Suspensions", "Add Extensions", "Complex Alterations">>

\* the extension keys of each layer
LayerKeys ==
    <<{"maj7", "min7", "dom7", "dim7"}, {"sus2", "sus4"},
      {"add9", "add11", "add13", "add6"}, {"b5", "#5", "b9", "#9", "#11", "b13"}>>

\* some chord of the request carries (set to True) a key of the layer
LayerInInput(layer) ==
    \E i \in DOMAIN dc_chords :
        /\ "extensions" \in DOMAIN dc_chords[i]
        /\ \E k \in LayerKeys[layer] \cap DOMAIN dc_chords[i].extensions :
               dc_chords[i].extensions[k]

\* the names of the layers of the input, in the fixed order
RECURSIVE ExpectedLayers(_)
ExpectedLayers(layer) ==
    IF layer > Len(LayerNames) THEN <<>>
    ELSE (IF LayerInInput(layer) THEN <<LayerNames[layer]>> ELSE <<>>)
         \o ExpectedLayers(layer + 1)

\* C19: deconstruct returns 1 to 6 steps numbered from 0; step 0 is the
\* Skeleton with the roots and qualities of the input and empty extensions;
\* the steps after it are, in the fixed order, the layers of which some input
\* chord carries an extension.
C19_StepsAreSkeletonThenLayers ==
    dc_pc = "returned" =>
        /\ Len(dc_result) \in 1..6
        /\ \A n \in DOMAIN dc_result : dc_result[n].stepNumber = n - 1
        /\ dc_result[1].stepName = "Skeleton"
        /\ Len(dc_result[1].chords) = Len(dc_chords)
        /\ \A i \in DOMAIN dc_chords :
              /\ dc_result[1].chords[i].root = dc_chords[i].root
              /\ dc_result[1].chords[i].quality = dc_chords[i].quality
              /\ dc_result[1].chords[i].extensions = EmptyMap
        /\ [n \in 1..(Len(dc_result) - 1) |-> dc_result[n + 1].stepName] = ExpectedLayers(1)

\* a request with a seventh, a sixth, an alteration and a "7" that is of no
\* layer: three layer steps after the skeleton
C19_Witness ==
    /\ dc_pc = "returned"
    /\ Len(dc_chords) = 2
    /\ \A i \in 1..2 : "extensions" \in DOMAIN dc_chords[i]
    /\ DOMAIN dc_chords[1].extensions = {"dom7", "b5", "7"}
    /\ DOMAIN dc_chords[2].extensions = {"add6"}
    /\ Len(dc_result) = 4
    /\ dc_result[3].stepName = "Add Extensions"
    /\ dc_result[4].stepNumber = 3

(***************************************************************************)
(* Malformed frames in analyze_progression                                 *)
(***************************************************************************)
\* the frames (from 1) whose length is not 12
BadFrames == {k \in DOMAIN hpcps : Len(hpcps[k]) # 12}
FirstBadFrame == CHOOSE k \in BadFrames : \A j \in BadFrames : k <= j

\* C20: with a frame of the wrong length among the frames, the call never
\* returns a progression; the loop never moves past the first such frame, and
\* the call raises exactly there; without such a frame it never raises.
C20_BadFrameRaises ==
    /\ BadFrames # {} =>
          /\ ap_pc # "returned"
          /\ ap_i < FirstBadFrame
          /\ ap_pc = "raised" => ap_i = FirstBadFrame - 1
    /\ BadFrames = {} => ap_pc # "raised"

\* the call raised at a malformed frame after it had already kept a segment
C20_Witness ==
    /\ ap_pc = "raised"
    /\ ap_i > 0
    /\ Len(progression) >= 1
    /\ Len(hpcps[ap_i + 1]) # 12


(***************************************************************************)
(* Properties of the rejection tests and the ranking of _correlation_match *)
(***************************************************************************)
MatchedRoot == (cm_root - cm_shift) % 12
MatchedVector == rotate(cm_hpcp.num, MatchedRoot)
MatchedPresent == Present(MatchedVector, cm_hpcp.den)
Ranked == {cm_shifted[k].ct : k \in DOMAIN cm_shifted}

\* a required bin below half the presence threshold
RequiredBelowHalf(ct) ==
    \E k \in DOMAIN ct.intervals :
        MatchedVector[(ct.intervals[k] % 12) + 1] * PresenceDen * 2 < PresenceNum * cm_hpcp.den

\* a required bin at exactly half the presence threshold
RequiredAtHalf(ct) ==
    \E k \in DOMAIN ct.intervals :
        MatchedVector[(ct.intervals[k] % 12) + 1] * PresenceDen * 2 = PresenceNum * cm_hpcp.den

\* C21: a template with a required bin below half the presence threshold is
\* not in the ranking, and a template whose required bins are all at or above
\* half the threshold (a bin exactly at half included) is not rejected for its
\* required intervals: it is ranked unless a forbidden interval is present or
\* its score is not positive.
C21_RequiredAtHalfDetectable ==
    cm_pc = "done" =>
        \A i \in DOMAIN build_templates :
            LET ct == build_templates[i]
            IN  /\ RequiredBelowHalf(ct) => ct \notin Ranked
                /\ (/\ ~RequiredBelowHalf(ct)
                    /\ ~ForbiddenPresent(ct, MatchedPresent)
                    /\ TemplateScore(ct, MatchedVector, cm_hpcp.den, MatchedPresent) > 0)
                   => ct \in Ranked

\* the same with the bin at exactly half the threshold counted as missing
StrictlyAboveHalfRanked ==
    cm_pc = "done" =>
        \A i \in DOMAIN build_templates :
            LET ct == build_templates[i]
            IN  /\ (RequiredBelowHalf(ct) \/ RequiredAtHalf(ct)) => ct \notin Ranked
                /\ (/\ ~RequiredBelowHalf(ct) /\ ~RequiredAtHalf(ct)
                    /\ ~ForbiddenPresent(ct, MatchedPresent)
                    /\ TemplateScore(ct, MatchedVector, cm_hpcp.den, MatchedPresent) > 0)
                   => ct \in Ranked


\* the bin of an interval in the matched vector, and the tests on it
MatchedBin(interval) == MatchedVector[(interval % 12) + 1]
AboveThreshold(interval) == MatchedBin(interval) * PresenceDen > PresenceNum * cm_hpcp.den
AboveHalfThreshold(interval) ==
    MatchedBin(interval) * PresenceDen * 2 > PresenceNum * cm_hpcp.den

\* a template that passes the forbidden-interval and required-interval tests
Survives(ct) ==
    /\ \A k \in DOMAIN ct.forbidden :
          ~(ct.forbidden[k] \in 0..11 /\ AboveThreshold(ct.forbidden[k]))
    /\ \A k \in DOMAIN ct.intervals : AboveHalfThreshold(ct.intervals[k])

\* the score of the formula, times 1000 * Len(ct.intervals) * cm_hpcp.den:
\* mean(required bins) + 0.15 * (optional bins above the threshold)
\* - 0.1 * (bins above the threshold outside required and optional)
\* + 0.002 * priority
FormulaScore(ct) ==
    LET n == Len(ct.intervals)
        covered == Range(ct.intervals) \cup Range(ct.optional)
        extras == {i \in 0..11 : AboveThreshold(i) /\ i \notin covered}
    IN  1000 * SumSeq([k \in DOMAIN ct.intervals |-> MatchedBin(ct.intervals[k])])
        + 150 * n * SumSeq([k \in DOMAIN ct.optional |->
                              IF AboveThreshold(ct.optional[k])
                              THEN MatchedBin(ct.optional[k]) ELSE 0])
        - 100 * n * cm_hpcp.den * Cardinality(extras)
        + 2 * n * cm_hpcp.den * ct.priority

\* every entry of the ranking carries the score of the formula, the entries
\* are distinct templates, and the scores descend
RankedByFormula ==
    /\ \A k \in DOMAIN cm_shifted :
          cm_shifted[k].score * Len(cm_shifted[k].ct.intervals)
              = (ScoreUnit \div 1000) * FormulaScore(cm_shifted[k].ct)
    /\ \A j, k \in DOMAIN cm_shifted : j < k =>
          /\ cm_shifted[j].ct # cm_shifted[k].ct
          /\ cm_shifted[j].score >= cm_shifted[k].score

\* C22 as stated: the ranking holds exactly the templates that survive the
\* two rejection tests, each with the score of the formula, in descending
\* order of score, and it is empty only when no template survives.
C22_RankingIsSurvivors ==
    cm_pc = "done" =>
        /\ Ranked = {ct \in Range(build_templates) : Survives(ct)}
        /\ RankedByFormula
        /\ (cm_shifted = <<>> => \A ct \in Range(build_templates) : ~Survives(ct))

\* C22, amended: the ranking holds exactly the surviving templates whose score
\* is positive, each with the score of the formula, in descending order of
\* score, and it is empty only when no surviving template scores above zero.
C22_RankingIsPositiveSurvivors ==
    cm_pc = "done" =>
        /\ Ranked = {ct \in Range(build_templates) : Survives(ct) /\ FormulaScore(ct) > 0}
        /\ RankedByFormula
        /\ (cm_shifted = <<>> =>
               \A ct \in Range(build_templates) : ~(Survives(ct) /\ FormulaScore(ct) > 0))

\* a crowded vector matched at the root of its faint triad: major and aug
\* survive the rejection tests, aug alone scores above zero and is ranked
C22_Witness ==
    /\ cm_pc = "done"
    /\ cm_hpcp = normalize_hpcp(Voicing(Crowded({0, 3, 7}), 0, FullGain))
    /\ MatchedRoot = 0
    /\ \E ct \in Range(build_templates) : ct.name = "major" /\ Survives(ct) /\ ct \notin Ranked
    /\ Len(cm_shifted) = 1
    /\ cm_shifted[1].ct.name = "aug"


FrameStep == ap_pc = "loop" /\ ap_i < Len(hpcps) /\ ap_pc' = "loop"

\* the segment that closes the open run before frame ap_i
ClosesOpenRun(seg) ==
    /\ seg.symbol = current_chord
    /\ seg.startTime = chord_start_time
    /\ seg.duration = FrameTime(ap_i - chord_start_idx)

\* the frames first..last that a segment covers hold no frame without a chord
\* and are cut off on both sides by the ends of the input or by a frame of
\* another signature
CoversOneRun(seg) ==
    \E first \in 1..Len(hpcps) : \E last \in first..Len(hpcps) :
        /\ seg.startTime = FrameTime(first - 1)
        /\ seg.duration = FrameTime(last - first + 1)
        /\ \A k \in first..last : IsChord(FrameResult(k)) /\ FrameLabel(k) = seg.symbol
        /\ first = 1 \/ FrameLabel(first - 1) # seg.symbol
        /\ last = Len(hpcps) \/ FrameLabel(last + 1) # seg.symbol

\* C24: a frame without a chord closes the open run: the run is emitted, with
\* its duration counted up to that frame, exactly if it is a chord run that is
\* long enough, the frame itself adds no segment and leaves no open chord; a
\* chord frame after it starts a new run at its own index and emits nothing;
\* and so every segment of the returned progression covers the frames of one
\* run, none of them without a chord.
C24_NoChordClosesRun ==
    /\ [][FrameStep /\ ~IsChord(FrameResult(ap_i + 1)) =>
            /\ current_chord' = NoName
            /\ chord_results' = <<>>
            /\ IF current_chord # NoName
                  /\ FLeq(min_duration, FrameTime(ap_i - chord_start_idx))
               THEN /\ Len(progression') = Len(progression) + 1
                    /\ SubSeq(progression', 1, Len(progression)) = progression
                    /\ ClosesOpenRun(progression'[Len(progression')])
               ELSE progression' = progression]_vars
    /\ [][FrameStep /\ IsChord(FrameResult(ap_i + 1)) /\ current_chord = NoName =>
            /\ progression' = progression
            /\ current_chord' = FrameLabel(ap_i + 1)
            /\ chord_start_idx' = ap_i
            /\ chord_start_time' = FrameTime(ap_i)
            /\ chord_results' = <<FrameResult(ap_i + 1)>>]_vars
    /\ [](Segmented => \A j \in DOMAIN progression : CoversOneRun(progression[j]))

\* five frames of C major, two frames of silence, five frames of C major: two
\* segments of C, the first 0.5 s long from 0, the second from 0.7 s
C24_Witness ==
    /\ Segmented
    /\ hpcps = Expand(<<<<FrameC, 5>>, <<FrameSilent, 2>>, <<FrameC, 5>>>>)
    /\ min_duration = FDivInt(1, 2)
    /\ Len(progression) = 2
    /\ progression[1].symbol = <<"C">> /\ progression[2].symbol = <<"C">>
    /\ progression[1].startTime = FZero
    /\ progression[1].duration = FrameTime(5)
    /\ progression[2].startTime = FrameTime(7)
    /\ progression[2].duration = FrameTime(5)


(***************************************************************************)
(* Properties of _find_hpcp_rotation                                       *)
(***************************************************************************)
\* the energy of the averaged vector at the root, the third and the fifth of
\* the key's triad after a rotation to the left, in the units of rc_avg
TriadEnergy(rotation) ==
    LET k == key_root(rc_key)
        third == IF rc_mode = "minor" THEN 3 ELSE 4
    IN  rc_avg[((k + rotation) % 12) + 1]
        + rc_avg[((k + third + rotation) % 12) + 1]
        + rc_avg[((k + 7 + rotation) % 12) + 1]

MaximalRotations ==
    {r \in 0..11 : \A q \in 0..11 : TriadEnergy(q) <= TriadEnergy(r)}

\* the greatest energy is more than 1.1 times the energy without rotation
BeatsMargin ==
    \E r \in MaximalRotations : 10 * TriadEnergy(r) > 11 * TriadEnergy(0)

ChangedPositions(n) ==
    {i - 1 : i \in {j \in DOMAIN dc_result[n].chords :
                       j \in DOMAIN dc_result[n - 1].chords
                       /\ dc_result[n].chords[j] # dc_result[n - 1].chords[j]}}

\* C26: in every step after the skeleton, modifiedIndices lists exactly the
\* positions whose chord changed (gained an extension) since the step before,
\* whatever the layer: sevenths, suspensions, add9/add11/add13/add6, and the
\* alterations.
C26_ModifiedIndicesAreChanges ==
    dc_pc = "returned" =>
        \A n \in 2..Len(dc_result) :
            /\ Range(dc_result[n].modifiedIndices) = ChangedPositions(n)
            /\ Len(dc_result[n].modifiedIndices) = Cardinality(ChangedPositions(n))


(***************************************************************************)
(* Properties of the key context of analyze_frame                          *)
(***************************************************************************)
\* the conventional key names and their pitch classes
ConventionalKeys ==
    { <<<<"C">>, 0>>, <<<<"C", "#">>, 1>>, <<<<"D", "b">>, 1>>, <<<<"D">>, 2>>,
      <<<<"D", "#">>, 3>>, <<<<"E", "b">>, 3>>, <<<<"E">>, 4>>, <<<<"F">>, 5>>,
      <<<<"F", "#">>, 6>>, <<<<"G", "b">>, 6>>, <<<<"G">>, 7>>, <<<<"G", "#">>, 8>>,
      <<<<"A", "b">>, 8>>, <<<<"A">>, 9>>, <<<<"A", "#">>, 10>>, <<<<"B", "b">>, 10>>,
      <<<<"B">>, 11>> }

\* C27: given a conventional key name and a mode, analyze_frame takes the
\* key's own pitch class as key_idx (flats as their enharmonic sharps, B as
\* 11): never another pitch class, never no key at all.
C27_KeyNameIsItsPitchClass ==
    (af_pc \in {"roots", "returned"} /\ af_root_idx # NoIndex /\ af_mode # None) =>
        \A kp \in ConventionalKeys : af_key = kp[1] => af_key_idx = kp[2]


(***************************************************************************)
(* Transposition of analyze_frame                                          *)
(***************************************************************************)
\* a note name a semitone up; no bass stays no bass
SemitoneUp(name) == IF name = NoName THEN NoName ELSE PitchName(PitchIndex(name) + 1)

\* C28: without key context, the analysis of a vector rotated up by a
\* semitone is the analysis of the vector itself with root and bass a semitone
\* up, and no chord exactly when the vector itself gives no chord.  The
\* vectors analyzed come in all their 12 rotations, so that the step of one
\* semitone stands for every shift.
C28_TranspositionEquivariant ==
    (Returned /\ NoContext /\ Len(af_hpcp) = 12) =>
        LET up == analyze_frame(Voicing(af_hpcp, 1, 1), NoName, None)
        IN  IF IsChord(af_result)
            THEN /\ IsChord(up)
                 /\ up.root = SemitoneUp(af_result.root)
                 /\ up.bass = SemitoneUp(af_result.bass)
                 /\ up.quality = af_result.quality
                 /\ up.confidence = af_result.confidence
            ELSE up = NoResult


(***************************************************************************)
(* Properties of the downloaded file                                       *)
(***************************************************************************)
\* C29: when the handler has answered a request whose download succeeded,
\* with success or with ANALYSIS_FAILED, <id>.wav is gone.
C29_DownloadRemovedAtResponse ==
    (yd_pc = "responded" /\ yd_response \in {"success", "ANALYSIS_FAILED"}) =>
        "wav" \notin yd_files

\* C30: once download_audio has raised TimeoutError, <id>.wav is absent, and
\* it stays absent whatever the thread does afterwards.
C30_NoFileAfterTimeout ==
    yd_timeout => "wav" \notin yd_files

=============================================================================
